---- MODULE Spec2Model ----
(***************************************************************************)
(* ScribbleDB: the page that owns the base layout (+page.svelte), the      *)
(* layout invocation (layout.ts, computeLayout) and the diagram component  *)
(* with its drag offsets (Diagram.svelte).                                 *)
(*                                                                         *)
(* Coordinates are integers.  Base coordinates and pointer positions are   *)
(* multiples of 4 and zoom scales are 1 or 2, so that every division the   *)
(* code performs (by the zoom scale, by 2 for a midpoint) is exact, as it  *)
(* is on the corresponding doubles.                                        *)
(* A node id `${schema}.${name}` is modelled as the pair <<schema, name>>. *)
(***************************************************************************)
EXTENDS Integers, Sequences, FiniteSets, TLC

VARIABLES
    source,            \* +page.svelte: the editor text
    direction,         \* +page.svelte: layout direction
    layout,            \* +page.svelte: LayoutResult | null (the Diagram's prop)
    parseErrors,       \* +page.svelte: TRUE iff the last parse reported errors
    lastParsedSchema,  \* +page.svelte: last schema that parsed
    elkCalls,          \* computeLayout calls awaiting elk.layout, oldest first
    consoleErrors,     \* number of console.error('Layout error:') reports
    mounted,           \* the page's mount effect has run
    debounceTimer,     \* +page.svelte: the pending 300 ms timer and its text | null
    nodeOffsets,       \* Diagram.svelte: nodeId -> {dx, dy}
    draggingNodeId,    \* Diagram.svelte: id of the node being dragged | null
    prevLayout,        \* Diagram.svelte: layout seen by the reset effect
    listeners,         \* document mousemove/mouseup listeners (closures)
    zoomScale,         \* scale of the <g> transform set by d3-zoom
    rendered,          \* what the template draws: node positions, edge points
    pointer,           \* position of the mouse pointer (clientX, clientY)
    lastEvent          \* history: the handler that ran last, and one fact about it

vars == <<source, direction, layout, parseErrors, lastParsedSchema, elkCalls,
          consoleErrors, mounted, debounceTimer, nodeOffsets, draggingNodeId, prevLayout,
          listeners, zoomScale, rendered, pointer, lastEvent>>

----------------------------------------------------------------------------
(* Bounds *)

\* longest polyline drawn as an input of adjustedPoints
MaxPts == 4
\* most computeLayout calls in flight at once
MaxPending == 1
\* most layout failures reported on the console
MaxErrors == 1
\* largest absolute displacement component a drag may reach
MaxOff == 8
\* most references of a schema handed to computeLayout as an input
MaxRefs == 2
\* most table groups of a schema handed to computeLayout as an input
MaxGroups == 2
\* most solver calls in flight at once where relayout triggers overlap
MaxOverlap == 2

\* coordinates of the points of an input polyline
GridCoords == {0, 4}
\* displacement components drawn as inputs of adjustedPoints
AdjOffs == {-2, 0, 2}
\* zoom scales (d3-zoom scaleExtent is [0.05, 4])
Scales == {1, 2}
\* pointer positions
PointerPos == {<<0, 0>>, <<4, 8>>}

----------------------------------------------------------------------------
(* Values *)

Null == [tag |-> "null"]

A == <<"public", "a">>
B == <<"public", "b">>
NodeIds == {A, B}

Pt(x, y) == [x |-> x, y |-> y]
Off(dx, dy) == [dx |-> dx, dy |-> dy]
ZeroOff == Off(0, 0)

Abs(v) == IF v < 0 THEN -v ELSE v

\* nodeOffsets[id] ?? { dx: 0, dy: 0 }
OffsetOf(offs, id) == IF id \in DOMAIN offs THEN offs[id] ELSE ZeroOff

IsZero(o) == o.dx = 0 /\ o.dy = 0

\* some node has a nonzero displacement
SomeDisplaced(offs) == \E id \in DOMAIN offs : ~IsZero(offs[id])

----------------------------------------------------------------------------
(* Diagram.svelte: rendering *)

nodeX(node, offs) == node.x + OffsetOf(offs, node.id).dx

nodeY(node, offs) == node.y + OffsetOf(offs, node.id).dy

edgeNodeIds(edge) ==
    [fromId |-> <<edge.ref.fromSchema, edge.ref.fromTable>>,
     toId   |-> <<edge.ref.toSchema, edge.ref.toTable>>]

\* Math.abs(q.x - p.x) >= Math.abs(q.y - p.y)
isH(p, q) == Abs(q.x - p.x) >= Abs(q.y - p.y)

\* n === 2: a straight line becomes a stepped orthogonal path, but the
\* bend is left out and the two shifted ends are joined directly
expandStraightDiagonal(pts, fromOff, toOff) ==
    <<Pt(pts[1].x + fromOff.dx, pts[1].y + fromOff.dy),
      Pt(pts[2].x + toOff.dx, pts[2].y + toOff.dy)>>

\* n === 2: the bend is put at the midpoint of the base endpoints
expandStraightBaseMid(pts, fromOff, toOff) ==
    LET p0 == Pt(pts[1].x + fromOff.dx, pts[1].y + fromOff.dy)
        p1 == Pt(pts[2].x + toOff.dx, pts[2].y + toOff.dy)
    IN  IF isH(pts[1], pts[2])
        THEN LET midX == (pts[1].x + pts[2].x) \div 2
             IN  <<p0, Pt(midX, p0.y), Pt(midX, p1.y), p1>>
        ELSE LET midY == (pts[1].y + pts[2].y) \div 2
             IN  <<p0, Pt(p0.x, midY), Pt(p1.x, midY), p1>>

\* n === 2: a straight line becomes a stepped orthogonal path
expandStraight(pts, fromOff, toOff) ==
    LET p0 == Pt(pts[1].x + fromOff.dx, pts[1].y + fromOff.dy)
        p1 == Pt(pts[2].x + toOff.dx, pts[2].y + toOff.dy)
    IN  IF isH(pts[1], pts[2])
        THEN LET midX == (p0.x + p1.x) \div 2
             IN  <<p0, Pt(midX, p0.y), Pt(midX, p1.y), p1>>
        ELSE LET midY == (p0.y + p1.y) \div 2
             IN  <<p0, Pt(p0.x, midY), Pt(p1.x, midY), p1>>

\* n >= 3: a horizontal segment passes dx on, a vertical one passes dy on
propagateAlongSegment(pts, fromOff, toOff) ==
    LET n == Len(pts)
        segH[i \in 1..(n - 1)] == isH(pts[i], pts[i + 1])
        fwd[i \in 1..n] ==
            IF i = 1 THEN fromOff
            ELSE IF segH[i - 1] THEN Off(fwd[i - 1].dx, 0)
                 ELSE Off(0, fwd[i - 1].dy)
        bwd[i \in 1..n] ==
            IF i = n THEN toOff
            ELSE IF segH[i] THEN Off(bwd[i + 1].dx, 0)
                 ELSE Off(0, bwd[i + 1].dy)
    IN  [i \in 1..n |-> Pt(pts[i].x + fwd[i].dx + bwd[i].dx,
                           pts[i].y + fwd[i].dy + bwd[i].dy)]

\* n >= 3: both offsets propagate through the segments; a horizontal
\* segment passes dy on, a vertical one passes dx on
propagate(pts, fromOff, toOff) ==
    LET n == Len(pts)
        segH[i \in 1..(n - 1)] == isH(pts[i], pts[i + 1])
        fwd[i \in 1..n] ==
            IF i = 1 THEN fromOff
            ELSE IF segH[i - 1] THEN Off(0, fwd[i - 1].dy)
                 ELSE Off(fwd[i - 1].dx, 0)
        bwd[i \in 1..n] ==
            IF i = n THEN toOff
            ELSE IF segH[i] THEN Off(0, bwd[i + 1].dy)
                 ELSE Off(bwd[i + 1].dx, 0)
    IN  [i \in 1..n |-> Pt(pts[i].x + fwd[i].dx + bwd[i].dx,
                           pts[i].y + fwd[i].dy + bwd[i].dy)]

\* the early return is missing: every polyline is recomputed
adjustedPointsNoEarlyReturn(edge, offs) ==
    LET ids == edgeNodeIds(edge)
        fromOff == OffsetOf(offs, ids.fromId)
        toOff == OffsetOf(offs, ids.toId)
        pts == edge.points
        n == Len(pts)
    IN  IF n = 0 THEN <<>>
        ELSE IF n = 1 THEN <<Pt(pts[1].x + fromOff.dx, pts[1].y + fromOff.dy)>>
        ELSE IF n = 2 THEN expandStraight(pts, fromOff, toOff)
        ELSE propagate(pts, fromOff, toOff)

\* the early return tests whether the two nodes have an entry in the map,
\* not whether their displacements are zero
adjustedPointsEntryTest(edge, offs) ==
    LET ids == edgeNodeIds(edge)
    IN  IF ids.fromId \notin DOMAIN offs /\ ids.toId \notin DOMAIN offs
        THEN edge.points
        ELSE adjustedPointsNoEarlyReturn(edge, offs)

\* a polyline of fewer than 2 points is dropped when a node is displaced
adjustedPointsDropsShort(edge, offs) ==
    LET ids == edgeNodeIds(edge)
        fromOff == OffsetOf(offs, ids.fromId)
        toOff == OffsetOf(offs, ids.toId)
        pts == edge.points
        n == Len(pts)
    IN  IF IsZero(fromOff) /\ IsZero(toOff) THEN pts
        ELSE IF n <= 1 THEN <<>>
        ELSE IF n = 2 THEN expandStraight(pts, fromOff, toOff)
        ELSE propagate(pts, fromOff, toOff)

adjustedPoints(edge, offs) ==
    LET ids == edgeNodeIds(edge)
        fromOff == OffsetOf(offs, ids.fromId)
        toOff == OffsetOf(offs, ids.toId)
        pts == edge.points
        n == Len(pts)
    IN  IF IsZero(fromOff) /\ IsZero(toOff) THEN pts
        ELSE IF n = 0 THEN <<>>
        ELSE IF n = 1 THEN <<Pt(pts[1].x + fromOff.dx, pts[1].y + fromOff.dy)>>
        ELSE IF n = 2 THEN expandStraight(pts, fromOff, toOff)
        ELSE propagate(pts, fromOff, toOff)

NotRendered == [nodes |-> <<>>, edges |-> <<>>]

\* {#if layout}: the position of every node and the points of every edge
Render(l, offs) ==
    IF l = Null THEN NotRendered
    ELSE [nodes |-> [i \in 1..Len(l.nodes) |->
                        [id |-> l.nodes[i].id,
                         x  |-> nodeX(l.nodes[i], offs),
                         y  |-> nodeY(l.nodes[i], offs)]],
          edges |-> [i \in 1..Len(l.edges) |-> adjustedPoints(l.edges[i], offs)]]

----------------------------------------------------------------------------
(* adjustedPoints as a function of its inputs: any polyline the solver may *)
(* return for one edge, any displacement map.                              *)

GridPoints == {Pt(x, y) : x \in GridCoords, y \in GridCoords}

Polylines == UNION {[1..n -> GridPoints] : n \in 0..MaxPts}

\* a SchemaRef: the two tables and the column lists of its endpoints
Ref(fromTable, fromColumns, toTable, toColumns) ==
    [fromSchema |-> "public", fromTable |-> fromTable, fromColumns |-> fromColumns,
     toSchema |-> "public", toTable |-> toTable, toColumns |-> toColumns]

RefAB == Ref("a", <<"b_id">>, "b", <<"id">>)
RefBB == Ref("b", <<"id">>, "b", <<"id">>)
RefAA == Ref("a", <<"k">>, "a", <<"id">>)

NodeAt(id, x, y) == [id |-> id, x |-> x, y |-> y]

OffsetMaps(values) ==
    UNION {[dom -> {Off(dx, dy) : dx \in values, dy \in values}] : dom \in SUBSET NodeIds}

InitAdj ==
    /\ source = "ab"
    /\ direction = "RIGHT"
    /\ \E pts \in Polylines, ref \in {RefAB, RefAA} :
          layout = [id |-> 0,
                    nodes |-> <<NodeAt(A, 0, 0), NodeAt(B, 8, 0)>>,
                    edges |-> <<[id |-> "e0", ref |-> ref, points |-> pts]>>]
    /\ parseErrors = FALSE
    /\ lastParsedSchema = Null
    /\ elkCalls = <<>>
    /\ consoleErrors = 0
    /\ mounted = TRUE
    /\ debounceTimer = Null
    /\ nodeOffsets \in OffsetMaps(AdjOffs)
    /\ draggingNodeId = Null
    /\ prevLayout = layout
    /\ listeners = <<>>
    /\ zoomScale = 1
    /\ rendered = NotRendered
    /\ pointer = <<0, 0>>
    /\ lastEvent = [kind |-> "init", flag |-> FALSE, after |-> "-"]

RenderAdj ==
    /\ lastEvent.kind = "init"
    /\ rendered' = Render(layout, nodeOffsets)
    /\ lastEvent' = [kind |-> "render", flag |-> FALSE, after |-> "-"]
    /\ UNCHANGED <<source, direction, layout, parseErrors, lastParsedSchema,
                   elkCalls, consoleErrors, mounted, debounceTimer, nodeOffsets,
                   draggingNodeId, prevLayout, listeners, zoomScale, pointer>>

NextAdj == RenderAdj

SpecAdj == InitAdj /\ [][NextAdj]_vars

----------------------------------------------------------------------------
(* parser.ts, layout.ts: schemas, the solver call and the extraction *)

Sources == {"ab", "a", "bad"}
Directions == {"RIGHT", "DOWN"}

\* a SchemaColumn
Column(name, type, pk) ==
    [name |-> name, type |-> type, pk |-> pk, unique |-> FALSE, notNull |-> pk,
     increment |-> pk]

\* table a has three columns and no note, table b one column and a note,
\* given as its words
TableA == [schema |-> "public", name |-> "a", note |-> Null,
           columns |-> <<Column("id", "int", TRUE), Column("b_id", "int", FALSE),
                         Column("k", "varchar", FALSE)>>]
TableB == [schema |-> "public", name |-> "b", note |-> <<"the", "parent">>,
           columns |-> <<Column("id", "int", TRUE)>>]

SchemaAB == [tables |-> <<TableA, TableB>>, refs |-> <<RefAB, RefBB>>,
             tableGroups |-> <<>>]
SchemaA == [tables |-> <<TableA>>, refs |-> <<RefAA>>, tableGroups |-> <<>>]

\* the text "bad" has a syntax error; the other two parse
parseDBML(text) ==
    IF text = "ab" THEN [ok |-> TRUE, schema |-> SchemaAB]
    ELSE IF text = "a" THEN [ok |-> TRUE, schema |-> SchemaA]
    ELSE [ok |-> FALSE]

TABLE_HEADER_HEIGHT == 36
COLUMN_ROW_HEIGHT == 28
TABLE_MIN_WIDTH == 200
TABLE_MAX_WIDTH == 360
CHAR_WIDTH == 8
TABLE_PADDING_X == 24
NOTE_CHAR_WIDTH == 6
NOTE_LINE_HEIGHT == 14
NOTE_NAME_AREA == 28
NOTE_BOTTOM_PAD == 8

Min(a, b) == IF a <= b THEN a ELSE b
Max(a, b) == IF a >= b THEN a ELSE b

RECURSIVE wrapLines(_, _, _)
\* the number of lines wrapNoteText has pushed once the words are used up,
\* with a current line of curLen characters (0: none) and charsPerLine
wrapLines(words, curLen, charsPerLine) ==
    IF words = <<>> THEN (IF curLen > 0 THEN 1 ELSE 0)
    ELSE LET w == Len(Head(words))
         IN  IF curLen > 0 /\ curLen + 1 + w > charsPerLine
             THEN 1 + wrapLines(Tail(words), w, charsPerLine)
             ELSE wrapLines(Tail(words), IF curLen > 0 THEN curLen + 1 + w ELSE w,
                            charsPerLine)

\* wrapNoteText(note, tableWidth).length
wrapNoteText(note, tableWidth) ==
    LET availWidth == tableWidth - TABLE_PADDING_X * 2
        charsPerLine == Max(1, availWidth \div NOTE_CHAR_WIDTH)
    IN  Max(1, wrapLines(note, 0, charsPerLine))

headerHeight(table, tableWidth) ==
    IF table.note = Null THEN TABLE_HEADER_HEIGHT
    ELSE NOTE_NAME_AREA + wrapNoteText(table.note, tableWidth) * NOTE_LINE_HEIGHT
         + NOTE_BOTTOM_PAD

\* the length of the line estimateTableWidth takes for a column
lineLen(col) ==
    LET parts == (IF col.pk THEN 1 ELSE 0) + (IF col.unique THEN 1 ELSE 0)
                 + (IF col.notNull THEN 1 ELSE 0) + (IF col.increment THEN 1 ELSE 0)
        constraintStr == IF parts > 0 THEN 2 + 2 * parts + (parts - 1) ELSE 0
    IN  Len(col.name) + Len(col.type) + 3 + constraintStr

RECURSIVE maxLineLen(_, _)
maxLineLen(columns, maxLen) ==
    IF columns = <<>> THEN maxLen
    ELSE maxLineLen(Tail(columns), Max(maxLen, lineLen(Head(columns))))

estimateTableWidth(table) ==
    Min(TABLE_MAX_WIDTH,
        Max(TABLE_MIN_WIDTH,
            maxLineLen(table.columns, Len(table.name)) * CHAR_WIDTH + TABLE_PADDING_X * 2))

tableHeight(table, tableWidth) ==
    headerHeight(table, tableWidth) + Len(table.columns) * COLUMN_ROW_HEIGHT

isHorizontal(dir) == dir \in {"RIGHT", "LEFT"}

tableNodeId(table) == <<table.schema, table.name>>

portId(table, columnName, side) == <<table.schema, table.name, columnName, side>>

groupNodeId(group) == <<"group:", group.name>>

\* the keys of tableMap
TableKeys(schema) == {tableNodeId(schema.tables[i]) : i \in 1..Len(schema.tables)}

\* tableMap.get(key), for a key of tableMap
tableMapGet(schema, key) ==
    schema.tables[CHOOSE i \in 1..Len(schema.tables) : tableNodeId(schema.tables[i]) = key]

MemberKey(m) == <<m.schemaName, m.tableName>>

\* the keys of tableToGroup
GroupedKeys(schema) ==
    UNION {{MemberKey(schema.tableGroups[g].tables[k]) :
               k \in 1..Len(schema.tableGroups[g].tables)} :
           g \in 1..Len(schema.tableGroups)}

\* the ports are put on the left and right edges whatever the direction
columnPortsSides(table, dir, i) ==
    LET width == estimateTableWidth(table)
        hh == headerHeight(table, width)
        name == table.columns[i + 1].name
        portY == hh + i * COLUMN_ROW_HEIGHT + COLUMN_ROW_HEIGHT \div 2
    IN  <<[id |-> portId(table, name, "right"), width |-> 0, height |-> 0,
           x |-> width, y |-> portY],
          [id |-> portId(table, name, "left"), width |-> 0, height |-> 0,
           x |-> 0, y |-> portY]>>

\* the two ports pushed for column i (from 0) of a table
columnPorts(table, dir, i) ==
    LET width == estimateTableWidth(table)
        height == tableHeight(table, width)
        hh == headerHeight(table, width)
        name == table.columns[i + 1].name
        portY == hh + i * COLUMN_ROW_HEIGHT + COLUMN_ROW_HEIGHT \div 2
        portX == TABLE_PADDING_X
                 + ((width - TABLE_PADDING_X * 2) \div (Len(table.columns) + 1)) * (i + 1)
    IN  IF isHorizontal(dir)
        THEN <<[id |-> portId(table, name, "right"), width |-> 0, height |-> 0,
                x |-> width, y |-> portY],
               [id |-> portId(table, name, "left"), width |-> 0, height |-> 0,
                x |-> 0, y |-> portY]>>
        ELSE <<[id |-> portId(table, name, "right"), width |-> 0, height |-> 0,
                x |-> portX, y |-> height],
               [id |-> portId(table, name, "left"), width |-> 0, height |-> 0,
                x |-> portX, y |-> 0]>>

RECURSIVE tablePorts(_, _, _)
\* ports, after the columns from i on have been visited
tablePorts(table, dir, i) ==
    IF i >= Len(table.columns) THEN <<>>
    ELSE columnPorts(table, dir, i) \o tablePorts(table, dir, i + 1)

\* buildTableElkNode: the node submitted for a table; a table node has no
\* children
buildTableElkNode(table, dir) ==
    [id |-> tableNodeId(table),
     width |-> estimateTableWidth(table),
     height |-> tableHeight(table, estimateTableWidth(table)),
     ports |-> tablePorts(table, dir, 0),
     children |-> <<>>]

\* the members of a group that are tables of the schema, as nodes
groupChildren(schema, group, dir) ==
    LET present == SelectSeq(group.tables, LAMBDA m : MemberKey(m) \in TableKeys(schema))
    IN  [k \in 1..Len(present) |->
            buildTableElkNode(tableMapGet(schema, MemberKey(present[k])), dir)]

\* a compound node is submitted for a group none of whose members is a table
groupNodesKeepEmpty(schema, dir) ==
    [g \in 1..Len(schema.tableGroups) |->
        [id |-> groupNodeId(schema.tableGroups[g]),
         children |-> groupChildren(schema, schema.tableGroups[g], dir)]]

\* one compound node for every group with at least one member that is a
\* table of the schema
groupNodes(schema, dir) ==
    SelectSeq([g \in 1..Len(schema.tableGroups) |->
                  [id |-> groupNodeId(schema.tableGroups[g]),
                   children |-> groupChildren(schema, schema.tableGroups[g], dir)]],
              LAMBDA n : n.children # <<>>)

\* connectionCount.get(key) || 0
connectionCount(schema, key) ==
    Cardinality({i \in 1..Len(schema.refs) :
                    <<schema.refs[i].fromSchema, schema.refs[i].fromTable>> = key})
    + Cardinality({i \in 1..Len(schema.refs) :
                    <<schema.refs[i].toSchema, schema.refs[i].toTable>> = key})

\* t goes behind the tables that have at least as many connections
insertByConnections(schema, sorted, t) ==
    LET ahead == Cardinality({i \in 1..Len(sorted) :
                     connectionCount(schema, tableNodeId(sorted[i]))
                         >= connectionCount(schema, tableNodeId(t))})
    IN  SubSeq(sorted, 1, ahead) \o <<t>> \o SubSeq(sorted, ahead + 1, Len(sorted))

RECURSIVE sortByConnections(_, _)
\* Array.prototype.sort (stable), most connections first
sortByConnections(schema, tables) ==
    IF tables = <<>> THEN <<>>
    ELSE insertByConnections(schema,
                             sortByConnections(schema, SubSeq(tables, 1, Len(tables) - 1)),
                             tables[Len(tables)])

\* every table is taken as ungrouped
ungroupedTablesAll(schema) == sortByConnections(schema, schema.tables)

\* the tables that are in no group, most connected first
ungroupedTables(schema) ==
    sortByConnections(schema,
        SelectSeq(schema.tables, LAMBDA t : tableNodeId(t) \notin GroupedKeys(schema)))

\* a reference of a table to itself does not survive
survivingRefsNoSelf(schema) ==
    SelectSeq(schema.refs,
              LAMBDA r : /\ <<r.fromSchema, r.fromTable>> \in TableKeys(schema)
                         /\ <<r.toSchema, r.toTable>> \in TableKeys(schema)
                         /\ <<r.fromSchema, r.fromTable>> # <<r.toSchema, r.toTable>>)

\* survivingRefs: the references both of whose tables are in tableMap
survivingRefs(schema) ==
    SelectSeq(schema.refs,
              LAMBDA r : /\ <<r.fromSchema, r.fromTable>> \in TableKeys(schema)
                         /\ <<r.toSchema, r.toTable>> \in TableKeys(schema))

\* ref.fromColumns[0] || ''
firstColumn(columns) == IF columns = <<>> THEN "" ELSE columns[1]

\* the edge is attached to the ports of the last columns of the reference
refEdgeLastColumn(schema, ref, i) ==
    LET fromTable == tableMapGet(schema, <<ref.fromSchema, ref.fromTable>>)
        toTable == tableMapGet(schema, <<ref.toSchema, ref.toTable>>)
        last(columns) == IF columns = <<>> THEN "" ELSE columns[Len(columns)]
    IN  [id |-> i,
         sources |-> <<portId(fromTable, last(ref.fromColumns), "right")>>,
         targets |-> <<portId(toTable, last(ref.toColumns), "left")>>]

\* the edge pushed for a surviving reference when i edges were pushed before
refEdge(schema, ref, i) ==
    LET fromTable == tableMapGet(schema, <<ref.fromSchema, ref.fromTable>>)
        toTable == tableMapGet(schema, <<ref.toSchema, ref.toTable>>)
    IN  [id |-> i,
         sources |-> <<portId(fromTable, firstColumn(ref.fromColumns), "right")>>,
         targets |-> <<portId(toTable, firstColumn(ref.toColumns), "left")>>]

\* computeLayout up to the await: the graph handed to elk.layout
buildGraph(schema, dir) ==
    LET refs == survivingRefs(schema)
        ungrouped == ungroupedTables(schema)
    IN  [id |-> "root",
         direction |-> dir,
         children |-> groupNodes(schema, dir)
                      \o [i \in 1..Len(ungrouped) |->
                             buildTableElkNode(ungrouped[i], dir)],
         edges |-> [i \in 1..Len(refs) |-> refEdge(schema, refs[i], i - 1)]]

\* a computeLayout call that awaits elk.layout
Call(schema, dir) ==
    [schema |-> schema, direction |-> dir, graph |-> buildGraph(schema, dir)]

\* routes the solver may return for an edge, as lists of sections
Section(s, bends, e) == [startPoint |-> s, bendPoints |-> bends, endPoint |-> e]
RouteStraight == <<Section(Pt(4, 0), <<>>, Pt(12, 0))>>
RouteStep == <<Section(Pt(4, 0), <<Pt(8, 0), Pt(8, 4)>>, Pt(12, 4))>>
Routes == {RouteStraight, RouteStep}

\* a result of elk.layout for a graph: the top-level children in a row from
\* origin, the children of a compound node in a row inside it, every edge
\* along route, in the submitted order
PlaceGraph(graph, origin, route) ==
    [children |-> [i \in 1..Len(graph.children) |->
                      [id |-> graph.children[i].id,
                       x |-> origin.x + 16 * (i - 1),
                       y |-> origin.y,
                       width |-> 32 + origin.x,
                       height |-> 8 + origin.y,
                       children |-> [k \in 1..Len(graph.children[i].children) |->
                                        [id |-> graph.children[i].children[k].id,
                                         x |-> 4 * k, y |-> 4]]]],
     edges |-> [i \in 1..Len(graph.edges) |->
                   [id |-> graph.edges[i].id, sections |-> route]],
     width |-> 32, height |-> 8]

\* what elk.layout may resolve with for the graph of a call of the page
ElkResults(call) == {PlaceGraph(call.graph, Pt(0, 0), route) : route \in Routes}

RECURSIVE SectionPointsBendsOnly(_)
\* the bendPoints of every section, without its startPoint and endPoint
SectionPointsBendsOnly(sections) ==
    IF sections = <<>> THEN <<>>
    ELSE Head(sections).bendPoints \o SectionPointsBendsOnly(Tail(sections))

RECURSIVE SectionPoints(_)
\* startPoint, bendPoints and endPoint of every section, concatenated
SectionPoints(sections) ==
    IF sections = <<>> THEN <<>>
    ELSE <<Head(sections).startPoint>> \o Head(sections).bendPoints
         \o <<Head(sections).endPoint>> \o SectionPoints(Tail(sections))

\* the keys of groupByElkId
GroupIds(schema) ==
    {groupNodeId(schema.tableGroups[g]) : g \in 1..Len(schema.tableGroups)}

\* the children of a compound node keep the positions the solver reported
childNodesRelative(schema, child) ==
    IF child.id \in GroupIds(schema)
    THEN [k \in 1..Len(child.children) |->
             NodeAt(child.children[k].id, child.children[k].x, child.children[k].y)]
    ELSE <<NodeAt(child.id, child.x, child.y)>>

\* the children of a compound node are not extracted
childNodesTopLevel(schema, child) ==
    IF child.id \in GroupIds(schema)
    THEN <<>>
    ELSE <<NodeAt(child.id, child.x, child.y)>>

\* the LayoutNodes of one child of the result: of a compound node its
\* children, moved by its origin, otherwise the child
childNodes(schema, child) ==
    IF child.id \in GroupIds(schema)
    THEN [k \in 1..Len(child.children) |->
             NodeAt(child.children[k].id, child.x + child.children[k].x,
                    child.y + child.children[k].y)]
    ELSE <<NodeAt(child.id, child.x, child.y)>>

RECURSIVE extractNodes(_, _)
\* nodes, in the order of the loop over result.children
extractNodes(schema, children) ==
    IF children = <<>> THEN <<>>
    ELSE childNodes(schema, Head(children)) \o extractNodes(schema, Tail(children))

\* groups: the box of every compound node of the result
extractGroups(schema, children) ==
    LET compound == SelectSeq(children, LAMBDA c : c.id \in GroupIds(schema))
    IN  [g \in 1..Len(compound) |->
            [id |-> compound[g].id, x |-> compound[g].x, y |-> compound[g].y,
             width |-> compound[g].width, height |-> compound[g].height,
             name |-> compound[g].id[2]]]

\* the LayoutEdges are paired with the references of the schema by index
ExtractLayoutSchemaRefs(call, result, id) ==
    [id |-> id,
     nodes |-> extractNodes(call.schema, result.children),
     edges |-> [i \in 1..Len(result.edges) |->
                    [id |-> result.edges[i].id,
                     ref |-> call.schema.refs[i],
                     points |-> SectionPoints(result.edges[i].sections)]],
     groups |-> extractGroups(call.schema, result.children),
     width |-> result.width,
     height |-> result.height]

\* computeLayout after the await: the LayoutResult built from the result
ExtractLayout(call, result, id) ==
    [id |-> id,
     nodes |-> extractNodes(call.schema, result.children),
     edges |-> [i \in 1..Len(result.edges) |->
                    [id |-> result.edges[i].id,
                     ref |-> survivingRefs(call.schema)[i],
                     points |-> SectionPoints(result.edges[i].sections)]],
     groups |-> extractGroups(call.schema, result.children),
     width |-> result.width,
     height |-> result.height]

\* a LayoutResult is a new object: its identity differs from the layouts
\* the page and the diagram still hold
FreshId(l, prev) ==
    CHOOSE i \in 0..2 : (l # Null => i # l.id) /\ (prev # Null => i # prev.id)

----------------------------------------------------------------------------
(* +page.svelte *)

\* a text that does not parse also discards the schema parsed before
parseSourceForgets(dbml, last) ==
    LET result == parseDBML(dbml)
    IN  IF result.ok
        THEN [parseErrors |-> FALSE, lastParsedSchema |-> result.schema]
        ELSE [parseErrors |-> TRUE, lastParsedSchema |-> Null]

\* parseSource: the new parseErrors and lastParsedSchema
parseSource(dbml, last) ==
    LET result == parseDBML(dbml)
    IN  IF result.ok
        THEN [parseErrors |-> FALSE, lastParsedSchema |-> result.schema]
        ELSE [parseErrors |-> TRUE, lastParsedSchema |-> last]

RemoveAt(seq, i) == SubSeq(seq, 1, i - 1) \o SubSeq(seq, i + 1, Len(seq))

DiagramUnchanged ==
    UNCHANGED <<nodeOffsets, draggingNodeId, prevLayout, listeners, zoomScale,
                rendered, pointer>>

\* runLayout returns without calling the solver when the text does not parse
runLayoutParsedOnly(src, dir, why) ==
    LET p == parseSource(src, lastParsedSchema)
    IN  /\ parseErrors' = p.parseErrors
        /\ lastParsedSchema' = p.lastParsedSchema
        /\ IF p.lastParsedSchema = Null \/ p.parseErrors
           THEN elkCalls' = elkCalls
           ELSE elkCalls' = Append(elkCalls, Call(p.lastParsedSchema, dir))
        /\ lastEvent' = [kind |-> why, flag |-> p.lastParsedSchema # Null, after |-> "-"]
        /\ UNCHANGED <<layout, consoleErrors, debounceTimer>>
        /\ DiagramUnchanged

\* runLayout up to its await, for the text src and the direction dir
runLayout(src, dir, why) ==
    LET p == parseSource(src, lastParsedSchema)
    IN  /\ parseErrors' = p.parseErrors
        /\ lastParsedSchema' = p.lastParsedSchema
        /\ IF p.lastParsedSchema = Null
           THEN elkCalls' = elkCalls
           ELSE elkCalls' = Append(elkCalls, Call(p.lastParsedSchema, dir))
        /\ lastEvent' = [kind |-> why, flag |-> p.lastParsedSchema # Null, after |-> "-"]
        /\ UNCHANGED <<layout, consoleErrors, debounceTimer>>
        /\ DiagramUnchanged

\* the mount effect: the stored project's text is loaded and laid out
Mount ==
    /\ ~mounted
    /\ mounted' = TRUE
    /\ \E src \in Sources :
          /\ source' = src
          /\ runLayout(src, direction, "mount")
    /\ UNCHANGED direction

\* the Auto Layout button
AutoLayoutClick ==
    /\ mounted
    /\ runLayout(source, direction, "autolayout")
    /\ UNCHANGED <<source, direction, mounted>>

\* the direction <select>
DirectionChange(d) ==
    /\ mounted
    /\ d # direction
    /\ direction' = d
    /\ runLayout(source, d, "direction")
    /\ UNCHANGED <<source, mounted>>

\* selectProject, createProject, deleteProject, handleFileSelect: another
\* text becomes the source and is laid out
SelectSource(src) ==
    /\ mounted
    /\ source' = src
    /\ runLayout(src, direction, "select")
    /\ UNCHANGED <<direction, mounted>>

\* the text of a timer that has been set and has neither fired nor been
\* cleared
Pending(text) == [tag |-> "pending", text |-> text]

\* without clearTimeout: a timer that is pending stays, with its earlier
\* text, and the new text gets none
handleSourceChangeKeepsTimer(newSource) ==
    /\ mounted
    /\ source' = newSource
    /\ debounceTimer' = IF debounceTimer = Null THEN Pending(newSource) ELSE debounceTimer
    /\ lastEvent' = [kind |-> "edit", flag |-> debounceTimer # Null, after |-> "-"]
    /\ UNCHANGED <<direction, layout, parseErrors, lastParsedSchema, elkCalls,
                   consoleErrors, mounted>>
    /\ DiagramUnchanged

\* the Editor's onchange, with bind:value={source}: the pending timer is
\* cleared and a new one set for the new text
handleSourceChange(newSource) ==
    /\ mounted
    /\ source' = newSource
    /\ debounceTimer' = Pending(newSource)
    /\ lastEvent' = [kind |-> "edit", flag |-> debounceTimer # Null, after |-> "-"]
    /\ UNCHANGED <<direction, layout, parseErrors, lastParsedSchema, elkCalls,
                   consoleErrors, mounted>>
    /\ DiagramUnchanged

\* the timer's callback lays the text out, as the first page did
\* (updateDiagram), when it parses
DebounceFireUpdates ==
    /\ debounceTimer # Null
    /\ debounceTimer' = Null
    /\ LET result == parseDBML(debounceTimer.text)
           p == parseSource(debounceTimer.text, lastParsedSchema)
       IN  /\ parseErrors' = p.parseErrors
           /\ lastParsedSchema' = p.lastParsedSchema
           /\ IF result.ok /\ Len(elkCalls) < MaxPending
              THEN elkCalls' = Append(elkCalls, Call(result.schema, direction))
              ELSE elkCalls' = elkCalls
           /\ lastEvent' = [kind |-> "debounce", flag |-> result.ok, after |-> "-"]
    /\ UNCHANGED <<source, direction, layout, consoleErrors, mounted>>
    /\ DiagramUnchanged

\* 300 ms after the last edit the timer's callback runs parseSource(newSource)
DebounceFire ==
    /\ debounceTimer # Null
    /\ debounceTimer' = Null
    /\ LET p == parseSource(debounceTimer.text, lastParsedSchema)
       IN  /\ parseErrors' = p.parseErrors
           /\ lastParsedSchema' = p.lastParsedSchema
           /\ lastEvent' = [kind |-> "debounce", flag |-> ~p.parseErrors, after |-> "-"]
    /\ UNCHANGED <<source, direction, layout, elkCalls, consoleErrors, mounted>>
    /\ DiagramUnchanged

\* the effect compares the layouts by their content, not by identity
resetEffectByContent(l, prev, offs) ==
    IF l # Null /\ (prev = Null \/ [l EXCEPT !.id = 0] # [prev EXCEPT !.id = 0])
    THEN [nodeOffsets |-> <<>>, prevLayout |-> l]
    ELSE [nodeOffsets |-> offs, prevLayout |-> prev]

\* Diagram.svelte, the reset effect: run when the layout prop l changes
resetEffect(l, prev, offs) ==
    IF l # Null /\ l # prev
    THEN [nodeOffsets |-> <<>>, prevLayout |-> l]
    ELSE [nodeOffsets |-> offs, prevLayout |-> prev]

TriggerKinds == {"mount", "autolayout", "direction", "select"}

\* fewer solver calls are in flight than a specification lets overlap
CanCall == Len(elkCalls) < MaxPending

\* the history of a settled call: after |-> the trigger that ran just
\* before, when call i is the one that trigger issued
Settled(kind, i) ==
    [kind |-> kind, flag |-> nodeOffsets # <<>>,
     after |-> IF /\ i = Len(elkCalls)
                  /\ lastEvent.kind \in TriggerKinds
                  /\ lastEvent.flag
               THEN lastEvent.kind ELSE "-"]

\* elk.layout resolves for call i: runLayout assigns layout, and the
\* diagram's reset effect sees a new layout object
ElkResolve(i, result) ==
    /\ i \in 1..Len(elkCalls)
    /\ result \in ElkResults(elkCalls[i])
    /\ layout' = ExtractLayout(elkCalls[i], result, FreshId(layout, prevLayout))
    /\ elkCalls' = RemoveAt(elkCalls, i)
    /\ LET eff == resetEffect(layout', prevLayout, nodeOffsets)
       IN  nodeOffsets' = eff.nodeOffsets /\ prevLayout' = eff.prevLayout
    /\ rendered' = Render(layout', nodeOffsets')
    /\ lastEvent' = Settled("resolve", i)
    /\ UNCHANGED <<source, direction, parseErrors, lastParsedSchema, consoleErrors,
                   mounted, debounceTimer, draggingNodeId, listeners, zoomScale,
                   pointer>>

\* elk.layout rejects for call i, and the catch also drops the layout
ElkRejectDropsLayout(i) ==
    /\ i \in 1..Len(elkCalls)
    /\ consoleErrors < MaxErrors
    /\ consoleErrors' = consoleErrors + 1
    /\ elkCalls' = RemoveAt(elkCalls, i)
    /\ layout' = Null
    /\ rendered' = Render(layout', nodeOffsets)
    /\ lastEvent' = Settled("reject", i)
    /\ UNCHANGED <<source, direction, parseErrors, lastParsedSchema, mounted,
                   debounceTimer, nodeOffsets, draggingNodeId, prevLayout,
                   listeners, zoomScale, pointer>>

\* elk.layout rejects for call i: runLayout's catch reports it
ElkReject(i) ==
    /\ i \in 1..Len(elkCalls)
    /\ consoleErrors < MaxErrors
    /\ consoleErrors' = consoleErrors + 1
    /\ elkCalls' = RemoveAt(elkCalls, i)
    /\ lastEvent' = Settled("reject", i)
    /\ UNCHANGED <<source, direction, layout, parseErrors, lastParsedSchema, mounted,
                   debounceTimer>>
    /\ DiagramUnchanged

----------------------------------------------------------------------------
(* Diagram.svelte: dragging *)

PageUnchanged ==
    UNCHANGED <<source, direction, layout, parseErrors, lastParsedSchema,
                elkCalls, consoleErrors, mounted, debounceTimer>>

LayoutNodeIds(l) == IF l = Null THEN {} ELSE {l.nodes[i].id : i \in 1..Len(l.nodes)}

\* onNodeMouseDown on a rendered node; the left button is 0.  The left
\* button goes down only when no gesture is in progress.
onNodeMouseDown(id, button) ==
    /\ id \in LayoutNodeIds(layout)
    /\ IF button # 0
       THEN /\ lastEvent' = [kind |-> "mousedown", flag |-> FALSE, after |-> "-"]
            /\ UNCHANGED <<draggingNodeId, listeners>>
       ELSE /\ listeners = <<>>
            /\ draggingNodeId' = id
            /\ listeners' = <<[id |-> id,
                               startX |-> pointer[1],
                               startY |-> pointer[2],
                               startDx |-> OffsetOf(nodeOffsets, id).dx,
                               startDy |-> OffsetOf(nodeOffsets, id).dy,
                               scale |-> zoomScale]>>
            /\ lastEvent' = [kind |-> "mousedown", flag |-> TRUE, after |-> "-"]
    /\ UNCHANGED <<nodeOffsets, prevLayout, zoomScale, rendered, pointer>>
    /\ PageUnchanged

\* the pointer's movement is added to the node's current displacement
\* instead of the displacement it had at mousedown
MovedOffsetOntoCurrent(l, pos) ==
    Off(OffsetOf(nodeOffsets, l.id).dx + (pos[1] - l.startX) \div l.scale,
        OffsetOf(nodeOffsets, l.id).dy + (pos[2] - l.startY) \div l.scale)

\* the displacement a listener writes for a pointer at pos
MovedOffset(l, pos) ==
    Off(l.startDx + (pos[1] - l.startX) \div l.scale,
        l.startDy + (pos[2] - l.startY) \div l.scale)

\* the new map holds the dragged node alone
writeOffsetAlone(offs, id, o) == [x \in {id} |-> o]

\* { ...nodeOffsets, [node.id]: o }
writeOffset(offs, id, o) ==
    [x \in DOMAIN offs \cup {id} |-> IF x = id THEN o ELSE offs[x]]

\* a mousemove on the document: the registered onMouseMove runs
onMouseMove(pos) ==
    /\ pointer' = pos
    /\ IF listeners = <<>>
       THEN /\ UNCHANGED nodeOffsets
            /\ lastEvent' = [kind |-> "mousemove", flag |-> FALSE, after |-> "-"]
       ELSE LET l == listeners[1]
                o == MovedOffset(l, pos)
            IN  /\ Abs(o.dx) <= MaxOff /\ Abs(o.dy) <= MaxOff
                /\ nodeOffsets' = writeOffset(nodeOffsets, l.id, o)
                /\ lastEvent' = [kind |-> "mousemove",
                                 flag |-> ~IsZero(OffsetOf(nodeOffsets, l.id)), after |-> "-"]
    /\ rendered' = Render(layout, nodeOffsets')
    /\ UNCHANGED <<draggingNodeId, prevLayout, listeners, zoomScale>>
    /\ PageUnchanged

\* the mouseup moves the dragged node of the base layout to where it was
\* dropped and forgets its displacement
onMouseUpCommit ==
    /\ listeners # <<>>
    /\ draggingNodeId' = Null
    /\ listeners' = <<>>
    /\ layout' = [layout EXCEPT !.nodes =
                     [i \in 1..Len(layout.nodes) |->
                         IF layout.nodes[i].id = listeners[1].id
                         THEN [layout.nodes[i] EXCEPT
                                  !.x = nodeX(layout.nodes[i], nodeOffsets),
                                  !.y = nodeY(layout.nodes[i], nodeOffsets)]
                         ELSE layout.nodes[i]]]
    /\ nodeOffsets' = [x \in DOMAIN nodeOffsets \ {listeners[1].id} |-> nodeOffsets[x]]
    /\ rendered' = Render(layout', nodeOffsets')
    /\ lastEvent' = [kind |-> "mouseup", flag |-> FALSE, after |-> "-"]
    /\ UNCHANGED <<prevLayout, zoomScale, pointer>>
    /\ UNCHANGED <<source, direction, parseErrors, lastParsedSchema,
                   elkCalls, consoleErrors, mounted, debounceTimer>>

\* the mouseup clears the marker and leaves the document's listeners on
onMouseUpKeepsListeners ==
    /\ listeners # <<>>
    /\ draggingNodeId' = Null
    /\ lastEvent' = [kind |-> "mouseup", flag |-> FALSE, after |-> "-"]
    /\ UNCHANGED <<nodeOffsets, prevLayout, listeners, zoomScale, rendered, pointer>>
    /\ PageUnchanged

\* a mouseup on the document (any button): the registered onMouseUp runs
onMouseUp ==
    /\ listeners # <<>>
    /\ draggingNodeId' = Null
    /\ listeners' = <<>>
    /\ lastEvent' = [kind |-> "mouseup", flag |-> FALSE, after |-> "-"]
    /\ UNCHANGED <<nodeOffsets, prevLayout, zoomScale, rendered, pointer>>
    /\ PageUnchanged

\* the d3-zoom handler sets the <g> transform
Zoom(k) ==
    /\ layout # Null
    /\ k # zoomScale
    /\ zoomScale' = k
    /\ lastEvent' = [kind |-> "zoom", flag |-> FALSE, after |-> "-"]
    /\ UNCHANGED <<nodeOffsets, draggingNodeId, prevLayout, listeners, rendered, pointer>>
    /\ PageUnchanged

----------------------------------------------------------------------------

Init ==
    /\ source = "ab"
    /\ direction = "RIGHT"
    /\ layout = Null
    /\ parseErrors = FALSE
    /\ lastParsedSchema = Null
    /\ elkCalls = <<>>
    /\ consoleErrors = 0
    /\ mounted = FALSE
    /\ debounceTimer = Null
    /\ nodeOffsets = <<>>
    /\ draggingNodeId = Null
    /\ prevLayout = Null
    /\ listeners = <<>>
    /\ zoomScale = 1
    /\ rendered = NotRendered
    /\ pointer = <<0, 0>>
    /\ lastEvent = [kind |-> "init", flag |-> FALSE, after |-> "-"]

\* The page with every relayout trigger and both outcomes of the solver;
\* of the diagram, drags of node a to one position at the initial zoom scale.
Next ==
    \/ Mount
    \/ CanCall /\ AutoLayoutClick
    \/ CanCall /\ \E d \in Directions : DirectionChange(d)
    \/ CanCall /\ \E src \in Sources : SelectSource(src)
    \/ \E i \in DOMAIN elkCalls : \E result \in ElkResults(elkCalls[i]) : ElkResolve(i, result)
    \/ \E i \in DOMAIN elkCalls : ElkReject(i)
    \/ onNodeMouseDown(A, 0)
    \/ onMouseMove(<<4, 8>>)
    \/ onMouseUp

Spec == Init /\ [][Next]_vars

----------------------------------------------------------------------------
(* The diagram of the schema "ab" once the page has mounted: every drag    *)
(* event on both nodes, zooming, and relayout by the Auto Layout button.   *)

InitDrag ==
    /\ source = "ab"
    /\ direction = "RIGHT"
    /\ layout = Null
    /\ parseErrors = FALSE
    /\ lastParsedSchema = SchemaAB
    /\ elkCalls = <<Call(SchemaAB, "RIGHT")>>
    /\ consoleErrors = 0
    /\ mounted = TRUE
    /\ debounceTimer = Null
    /\ nodeOffsets = <<>>
    /\ draggingNodeId = Null
    /\ prevLayout = Null
    /\ listeners = <<>>
    /\ zoomScale = 1
    /\ rendered = NotRendered
    /\ pointer = <<0, 0>>
    /\ lastEvent = [kind |-> "mount", flag |-> TRUE, after |-> "-"]

NextDrag ==
    \/ CanCall /\ AutoLayoutClick
    \/ \E i \in DOMAIN elkCalls : \E result \in ElkResults(elkCalls[i]) : ElkResolve(i, result)
    \/ \E id \in NodeIds, button \in {0, 2} : onNodeMouseDown(id, button)
    \/ \E pos \in PointerPos : onMouseMove(pos)
    \/ onMouseUp
    \/ \E k \in Scales : Zoom(k)

SpecDrag == InitDrag /\ [][NextDrag]_vars

----------------------------------------------------------------------------
(* The mounted page while projects are switched between the texts "ab" and *)
(* "a": drags of both nodes, and solver calls that resolve at any moment,  *)
(* a gesture in progress included.                                         *)

NextInstall ==
    \/ CanCall /\ \E src \in {"ab", "a"} : SelectSource(src)
    \/ \E i \in DOMAIN elkCalls : \E result \in ElkResults(elkCalls[i]) : ElkResolve(i, result)
    \/ \E id \in NodeIds : onNodeMouseDown(id, 0)
    \/ \E pos \in PointerPos : onMouseMove(pos)
    \/ onMouseUp

SpecInstall == InitDrag /\ [][NextInstall]_vars

----------------------------------------------------------------------------
(* The mounted page with relayout triggers that follow each other before   *)
(* the solver has answered: the calls in flight resolve in any order.      *)

NextOverlap ==
    \/ Len(elkCalls) < MaxOverlap /\ AutoLayoutClick
    \/ Len(elkCalls) < MaxOverlap /\ \E d \in Directions : DirectionChange(d)
    \/ Len(elkCalls) < MaxOverlap /\ \E src \in {"ab", "a"} : SelectSource(src)
    \/ \E i \in DOMAIN elkCalls : \E result \in ElkResults(elkCalls[i]) : ElkResolve(i, result)

SpecOverlap == InitDrag /\ [][NextOverlap]_vars

----------------------------------------------------------------------------
(* The mounted page with its editor: edits and the debounce timer, the     *)
(* Auto Layout button, both outcomes of the solver, and drags of node a.   *)

ElkSettle ==
    \/ \E i \in DOMAIN elkCalls : \E result \in ElkResults(elkCalls[i]) : ElkResolve(i, result)
    \/ \E i \in DOMAIN elkCalls : ElkReject(i)

NextEdit ==
    \/ \E text \in Sources : handleSourceChange(text)
    \/ DebounceFire
    \/ CanCall /\ AutoLayoutClick
    \/ ElkSettle
    \/ onNodeMouseDown(A, 0)
    \/ onMouseMove(<<4, 8>>)
    \/ onMouseUp

\* the page after its mount effect, for a stored text that parses and for
\* one that does not
InitEdit ==
    \/ InitDrag
    \/ /\ source = "bad"
       /\ direction = "RIGHT"
       /\ layout = Null
       /\ parseErrors = TRUE
       /\ lastParsedSchema = Null
       /\ elkCalls = <<>>
       /\ consoleErrors = 0
       /\ mounted = TRUE
       /\ debounceTimer = Null
       /\ nodeOffsets = <<>>
       /\ draggingNodeId = Null
       /\ prevLayout = Null
       /\ listeners = <<>>
       /\ zoomScale = 1
       /\ rendered = NotRendered
       /\ pointer = <<0, 0>>
       /\ lastEvent = [kind |-> "mount", flag |-> FALSE, after |-> "-"]

SpecEdit == InitEdit /\ [][NextEdit]_vars

\* timers fire and promises settle; the user's actions are not scheduled
SpecEditFair == SpecEdit /\ WF_debounceTimer(DebounceFire) /\ WF_elkCalls(ElkSettle)

----------------------------------------------------------------------------
(* computeLayout as a function of its inputs: any schema of up to two      *)
(* tables with references and group members that may name a table the      *)
(* schema lacks, and any result the solver may return for the graph.       *)

C == <<"public", "c">>

RefAC == Ref("a", <<"b_id">>, "c", <<"id">>)
RefCA == Ref("c", <<"id">>, "a", <<"id">>)

LayoutRefs == {RefAB, RefBB, RefAC, RefCA}

TableLists == {<<>>, <<TableA>>, <<TableA, TableB>>, <<TableB, TableA>>}

Member(key) == [schemaName |-> key[1], tableName |-> key[2]]

MemberLists == {<<Member(A)>>, <<Member(C)>>, <<Member(A), Member(B)>>}

GroupName(g) == IF g = 1 THEN "g1" ELSE IF g = 2 THEN "g2" ELSE "g3"

LayoutSchemas ==
    {[tables |-> tables,
      refs |-> refs,
      tableGroups |-> [g \in 1..Len(members) |->
                          [name |-> GroupName(g), tables |-> members[g]]]] :
        tables \in TableLists,
        refs \in UNION {[1..n -> LayoutRefs] : n \in 0..MaxRefs},
        members \in UNION {[1..n -> MemberLists] : n \in 0..MaxGroups}}

\* origins the solver may report for the first top-level child
Origins == {Pt(0, 0), Pt(8, 4)}

\* a route of two sections
RouteTwoSections ==
    <<Section(Pt(4, 0), <<>>, Pt(8, 0)), Section(Pt(8, 0), <<Pt(8, 4)>>, Pt(12, 4))>>

\* what elk.layout may resolve with for a graph; an edge may come back
\* without sections
SolverResults(graph) ==
    {PlaceGraph(graph, origin, route) :
        origin \in Origins, route \in Routes \cup {<<>>, RouteTwoSections}}

InitLayout ==
    /\ source = "ab"
    /\ direction = "RIGHT"
    /\ layout = Null
    /\ parseErrors = FALSE
    /\ lastParsedSchema \in LayoutSchemas
    /\ elkCalls = <<>>
    /\ consoleErrors = 0
    /\ mounted = TRUE
    /\ debounceTimer = Null
    /\ nodeOffsets = [id \in {A} |-> Off(2, 2)]
    /\ draggingNodeId = Null
    /\ prevLayout = Null
    /\ listeners = <<>>
    /\ zoomScale = 1
    /\ rendered = NotRendered
    /\ pointer = <<0, 0>>
    /\ lastEvent = [kind |-> "init", flag |-> FALSE, after |-> "-"]

\* computeLayout(schema, direction) up to its await
computeLayoutCall ==
    /\ lastEvent.kind = "init"
    /\ elkCalls' = <<Call(lastParsedSchema, direction)>>
    /\ lastEvent' = [kind |-> "graph", flag |-> FALSE, after |-> "-"]
    /\ UNCHANGED <<source, direction, layout, parseErrors, lastParsedSchema,
                   consoleErrors, mounted, debounceTimer, nodeOffsets,
                   draggingNodeId, prevLayout, listeners, zoomScale, rendered,
                   pointer>>

\* the call, with the result elk.layout resolved with
Returned(call, result) ==
    [schema |-> call.schema, direction |-> call.direction, graph |-> call.graph,
     result |-> result]

\* computeLayout after its await, and the diagram drawn from its result
\* with the displacements as they are
computeLayoutReturn ==
    /\ lastEvent.kind = "graph"
    /\ \E result \in SolverResults(elkCalls[1].graph) :
           /\ layout' = ExtractLayout(elkCalls[1], result, 0)
           /\ elkCalls' = <<Returned(elkCalls[1], result)>>
    /\ rendered' = Render(layout', nodeOffsets)
    /\ lastEvent' = [kind |-> "return", flag |-> FALSE, after |-> "-"]
    /\ UNCHANGED <<source, direction, parseErrors, lastParsedSchema,
                   consoleErrors, mounted, debounceTimer, nodeOffsets,
                   draggingNodeId, prevLayout, listeners, zoomScale, pointer>>

NextLayout ==
    \/ computeLayoutCall
    \/ computeLayoutReturn

SpecLayout == InitLayout /\ [][NextLayout]_vars

----------------------------------------------------------------------------
(* The graph builder for every direction, over schemas whose references    *)
(* have one column, two columns, no column or a column the table lacks.    *)

LayoutDirections == {"RIGHT", "LEFT", "DOWN", "UP"}

RefComposite == Ref("a", <<"b_id", "k">>, "b", <<"id", "zz">>)
RefNoColumns == Ref("a", <<>>, "b", <<"id">>)
RefUnknownColumn == Ref("a", <<"b_id">>, "b", <<"zz">>)

PortRefs == {RefAB, RefBB, RefAC, RefComposite, RefNoColumns, RefUnknownColumn}

PortSchemas ==
    {[tables |-> tables, refs |-> refs, tableGroups |-> groups] :
        tables \in {<<TableA, TableB>>, <<TableB, TableA>>},
        refs \in UNION {[1..n -> PortRefs] : n \in 0..MaxRefs},
        groups \in {<<>>, <<[name |-> "g1", tables |-> <<Member(A)>>]>>}}

InitPorts ==
    /\ source = "ab"
    /\ direction \in LayoutDirections
    /\ layout = Null
    /\ parseErrors = FALSE
    /\ lastParsedSchema \in PortSchemas
    /\ elkCalls = <<>>
    /\ consoleErrors = 0
    /\ mounted = TRUE
    /\ debounceTimer = Null
    /\ nodeOffsets = <<>>
    /\ draggingNodeId = Null
    /\ prevLayout = Null
    /\ listeners = <<>>
    /\ zoomScale = 1
    /\ rendered = NotRendered
    /\ pointer = <<0, 0>>
    /\ lastEvent = [kind |-> "init", flag |-> FALSE, after |-> "-"]

NextPorts == computeLayoutCall

SpecPorts == InitPorts /\ [][NextPorts]_vars

----------------------------------------------------------------------------
(* Predicates on polylines *)

AxisAligned(pts) ==
    \A i \in 1..(Len(pts) - 1) : pts[i].x = pts[i + 1].x \/ pts[i].y = pts[i + 1].y

\* C1: whenever the base polyline of an edge is axis-aligned, every
\* consecutive point pair of the polyline adjustedPoints returns is
\* axis-aligned, whatever the displacements of its two nodes
C1_AdjustedAxisAligned ==
    lastEvent.kind = "render" =>
        \A i \in 1..Len(layout.edges) :
            AxisAligned(layout.edges[i].points) => AxisAligned(rendered.edges[i])

\* a stepped polyline of 4 points with both endpoints displaced
C1_Witness ==
    /\ lastEvent.kind = "render"
    /\ Len(layout.edges[1].points) = 4
    /\ AxisAligned(layout.edges[1].points)
    /\ layout.edges[1].ref = RefAB
    /\ A \in DOMAIN nodeOffsets /\ nodeOffsets[A] = Off(2, -2)
    /\ B \in DOMAIN nodeOffsets /\ nodeOffsets[B] = Off(-2, 2)
    /\ rendered.edges[1] # layout.edges[1].points
    /\ AxisAligned(rendered.edges[1])

\* C2: the first point of the adjusted polyline is the base first point
\* plus the source node's displacement and the last point is the base last
\* point plus the target node's displacement, for every base polyline of
\* at least 2 points
C2_EndsFollowNodes ==
    lastEvent.kind = "render" =>
        \A i \in 1..Len(layout.edges) :
            LET e == layout.edges[i]
                ids == edgeNodeIds(e)
                f == OffsetOf(nodeOffsets, ids.fromId)
                t == OffsetOf(nodeOffsets, ids.toId)
                n == Len(e.points)
                out == rendered.edges[i]
            IN  n >= 2 =>
                  /\ Len(out) >= 2
                  /\ out[1] = Pt(e.points[1].x + f.dx, e.points[1].y + f.dy)
                  /\ out[Len(out)] = Pt(e.points[n].x + t.dx, e.points[n].y + t.dy)

\* C3: with a displacement of (0,0) written for a node and no node
\* displaced, the adjusted polyline of every edge is its base polyline
C3_ZeroDisplacementIdentity ==
    (lastEvent.kind = "render" /\ ~SomeDisplaced(nodeOffsets)) =>
        \A i \in 1..Len(layout.edges) :
            rendered.edges[i] = layout.edges[i].points

C3_Witness ==
    /\ lastEvent.kind = "render"
    /\ DOMAIN nodeOffsets = {A, B}
    /\ nodeOffsets[A] = ZeroOff /\ nodeOffsets[B] = ZeroOff
    /\ layout.edges[1].ref = RefAB
    /\ layout.edges[1].points = <<Pt(0, 0), Pt(4, 0)>>
    /\ rendered.edges[1] = <<Pt(0, 0), Pt(4, 0)>>

----------------------------------------------------------------------------
(* Predicates on what is drawn *)

\* every node is drawn at its base position and every edge along its base
\* polyline
AtBase(l, r) ==
    /\ Len(r.nodes) = Len(l.nodes)
    /\ Len(r.edges) = Len(l.edges)
    /\ \A i \in 1..Len(l.nodes) :
          r.nodes[i].x = l.nodes[i].x /\ r.nodes[i].y = l.nodes[i].y
    /\ \A i \in 1..Len(l.edges) : r.edges[i] = l.edges[i].points

DragKinds == {"mousedown", "mousemove", "mouseup"}

\* the step is a mousemove that the listener of a gesture handles
DraggingMove == lastEvent'.kind = "mousemove" /\ listeners # <<>>

\* C4: when a move of a drag gesture brings the dragged node's displacement
\* from a nonzero value back to zero and no other node is displaced, every
\* edge is drawn along its base polyline again, the 2-point polylines that
\* were drawn as stepped paths included
C4_RoundTrip ==
    (lastEvent.kind = "mousemove" /\ lastEvent.flag /\ ~SomeDisplaced(nodeOffsets)) =>
        \A i \in 1..Len(layout.edges) : rendered.edges[i] = layout.edges[i].points

\* node a dragged away and back over a 2-point polyline
C4_Witness ==
    /\ lastEvent.kind = "mousemove" /\ lastEvent.flag
    /\ listeners # <<>> /\ listeners[1].id = A
    /\ A \in DOMAIN nodeOffsets /\ nodeOffsets[A] = ZeroOff
    /\ ~SomeDisplaced(nodeOffsets)
    /\ Len(layout.edges[1].points) = 2
    /\ edgeNodeIds(layout.edges[1]).fromId = A
    /\ rendered.edges[1] = layout.edges[1].points

\* C5: a move of a drag gesture on node N changes N's entry of the
\* displacement map only: every other node keeps its entry and the place
\* it is drawn at, and every edge with neither endpoint at a displaced node
\* is drawn along its base polyline
C5_DragFrame ==
    [][DraggingMove =>
          LET n == listeners[1].id
          IN  /\ DOMAIN nodeOffsets' = DOMAIN nodeOffsets \cup {n}
              /\ \A m \in DOMAIN nodeOffsets \ {n} : nodeOffsets'[m] = nodeOffsets[m]
              /\ \A i \in 1..Len(layout.nodes) :
                    layout.nodes[i].id # n => rendered'.nodes[i] = rendered.nodes[i]
              /\ \A i \in 1..Len(layout.edges) :
                    LET ids == edgeNodeIds(layout.edges[i])
                    IN  (/\ IsZero(OffsetOf(nodeOffsets', ids.fromId))
                         /\ IsZero(OffsetOf(nodeOffsets', ids.toId)))
                        => rendered'.edges[i] = layout.edges[i].points]_vars

\* node a is dragged while node b is displaced: the edge of a is redrawn,
\* b stays where its own displacement put it
C5_Witness ==
    /\ lastEvent.kind = "mousemove"
    /\ listeners # <<>> /\ listeners[1].id = A
    /\ A \in DOMAIN nodeOffsets /\ ~IsZero(nodeOffsets[A])
    /\ B \in DOMAIN nodeOffsets /\ ~IsZero(nodeOffsets[B])
    /\ \E i \in 1..Len(layout.nodes) :
          /\ rendered.nodes[i].id = B
          /\ rendered.nodes[i].x = layout.nodes[i].x + nodeOffsets[B].dx
    /\ rendered.edges[1] # layout.edges[1].points

\* C6: no mousedown, mousemove or mouseup changes the base layout, its
\* nodes, edges and groups; the drag changes the displacement map and the
\* dragging-node marker
C6_DragKeepsLayout ==
    [][lastEvent'.kind \in DragKinds =>
          /\ layout' = layout
          /\ prevLayout' = prevLayout
          /\ zoomScale' = zoomScale
          /\ UNCHANGED <<source, direction, parseErrors, lastParsedSchema,
                         elkCalls, consoleErrors, mounted>>]_vars

\* a gesture has ended with its node displaced and the layout as installed
C6_Witness ==
    /\ lastEvent.kind = "mouseup"
    /\ layout # Null /\ layout = prevLayout
    /\ A \in DOMAIN nodeOffsets /\ ~IsZero(nodeOffsets[A])
    /\ \E i \in 1..Len(layout.nodes) :
          layout.nodes[i].id = A /\ rendered.nodes[i].x # layout.nodes[i].x
    /\ draggingNodeId = Null

\* C7: whenever a new base layout is installed the displacement map is
\* reset to empty, every node is drawn at its new base position and every
\* edge along its new base polyline
C7_InstallResets ==
    [][layout' # layout =>
          /\ nodeOffsets' = <<>>
          /\ prevLayout' = layout'
          /\ AtBase(layout', rendered')]_vars

\* a relayout has been installed over a diagram with displaced nodes
C7_Witness ==
    /\ lastEvent.kind = "resolve" /\ lastEvent.flag
    /\ layout # Null
    /\ nodeOffsets = <<>>
    /\ AtBase(layout, rendered)

\* C8: the listener of a gesture on node N holds N's displacement, the
\* pointer position and the zoom scale of the mousedown until the gesture
\* ends, and at every move N's displacement is the displacement at the
\* mousedown plus the pointer's movement since the mousedown divided by
\* that scale
C8_DisplacementAccumulates ==
    [][/\ (lastEvent'.kind = "mousedown" /\ lastEvent'.flag) =>
             /\ Len(listeners') = 1
             /\ listeners'[1].startDx = OffsetOf(nodeOffsets, listeners'[1].id).dx
             /\ listeners'[1].startDy = OffsetOf(nodeOffsets, listeners'[1].id).dy
             /\ listeners'[1].startX = pointer[1]
             /\ listeners'[1].startY = pointer[2]
             /\ listeners'[1].scale = zoomScale
       /\ (listeners # <<>> /\ lastEvent'.kind # "mouseup") => listeners' = listeners
       /\ DraggingMove =>
             LET l == listeners[1]
                 o == nodeOffsets'[l.id]
             IN  /\ (o.dx - l.startDx) * l.scale = pointer'[1] - l.startX
                 /\ (o.dy - l.startDy) * l.scale = pointer'[2] - l.startY]_vars

\* a second gesture on a displaced node, at zoom scale 2, has moved it
C8_Witness ==
    /\ lastEvent.kind = "mousemove"
    /\ listeners # <<>>
    /\ listeners[1].startDx # 0
    /\ listeners[1].scale = 2
    /\ pointer # <<listeners[1].startX, listeners[1].startY>>
    /\ nodeOffsets[listeners[1].id].dx # listeners[1].startDx

\* C9, as stated: once the solver call of an Auto Layout click has settled
\* the displacement map is empty
C9_AutoLayoutEmptiesMap ==
    (lastEvent.kind \in {"resolve", "reject"} /\ lastEvent.after = "autolayout") =>
        nodeOffsets = <<>>

\* C9, amended: an Auto Layout click parses the source and calls the solver
\* with the last schema that parsed and the current direction, leaving the
\* displacement map as it is; the map is emptied when a solver call
\* resolves, and is left as it is when the call rejects
C9_AutoLayoutResets ==
    [][/\ lastEvent'.kind = "autolayout" =>
             /\ nodeOffsets' = nodeOffsets
             /\ lastParsedSchema' = parseSource(source, lastParsedSchema).lastParsedSchema
             /\ IF lastParsedSchema' = Null
                THEN elkCalls' = elkCalls
                ELSE elkCalls' = Append(elkCalls, Call(lastParsedSchema', direction))
       /\ lastEvent'.kind = "resolve" => nodeOffsets' = <<>> /\ AtBase(layout', rendered')
       /\ lastEvent'.kind = "reject" => nodeOffsets' = nodeOffsets /\ rendered' = rendered]_vars

\* the call of an Auto Layout click has resolved over displaced nodes
C9_Witness ==
    /\ lastEvent.kind = "resolve" /\ lastEvent.after = "autolayout" /\ lastEvent.flag
    /\ nodeOffsets = <<>>
    /\ elkCalls = <<>>
    /\ AtBase(layout, rendered)

\* C10: when a solver call rejects, one error is reported and the layout
\* and what is drawn stay as they were; the layout changes only when a call
\* resolves, to the layout built from the whole of the solver's result
C10_RejectKeepsLayout ==
    [][/\ lastEvent'.kind = "reject" =>
             /\ consoleErrors' = consoleErrors + 1
             /\ layout' = layout
             /\ rendered' = rendered
       /\ layout' # layout =>
             /\ lastEvent'.kind = "resolve"
             /\ \E i \in DOMAIN elkCalls : \E result \in ElkResults(elkCalls[i]) :
                   layout' = ExtractLayout(elkCalls[i], result, layout'.id)]_vars

\* a call has rejected with a layout installed
C10_Witness ==
    /\ lastEvent.kind = "reject"
    /\ consoleErrors = 1
    /\ layout # Null
    /\ AtBase(layout, rendered)

LaidOutFrom(l, schema) ==
    /\ l # Null
    /\ Len(l.nodes) = Len(schema.tables)
    /\ LayoutNodeIds(l) = TableKeys(schema)

ParsingSources == {text \in Sources : parseDBML(text).ok}

C18_SolverOncePerTrigger ==
    [][/\ Len(elkCalls') <= Len(elkCalls) + 1
       /\ Len(elkCalls') > Len(elkCalls) => lastEvent'.kind \in TriggerKinds
       /\ lastEvent'.kind = "reject" =>
             \E i \in DOMAIN elkCalls : elkCalls' = RemoveAt(elkCalls, i)
       /\ lastEvent'.kind = "edit" =>
             /\ debounceTimer' = Pending(source')
             /\ UNCHANGED <<elkCalls, parseErrors, lastParsedSchema>>
       /\ lastEvent'.kind = "debounce" =>
             /\ debounceTimer = Pending(source)
             /\ debounceTimer' = Null
             /\ elkCalls' = elkCalls
             /\ parseErrors' = ~parseDBML(source).ok]_vars

\* an edit has arrived while the timer of an earlier edit was pending: one
\* timer is pending, for the new text, and no call is with the solver
C18_Witness ==
    /\ lastEvent.kind = "edit" /\ lastEvent.flag
    /\ source = "a"
    /\ debounceTimer = Pending("a")
    /\ lastParsedSchema = SchemaAB
    /\ elkCalls = <<>>

----------------------------------------------------------------------------
(* Claims on computeLayout *)

\* the namespace.name identities of the tables of a schema
SchemaTableIds(schema) ==
    {<<schema.tables[i].schema, schema.tables[i].name>> : i \in DOMAIN schema.tables}

\* both tables a reference names are tables of the schema
Resolvable(schema, ref) ==
    /\ <<ref.fromSchema, ref.fromTable>> \in SchemaTableIds(schema)
    /\ <<ref.toSchema, ref.toTable>> \in SchemaTableIds(schema)

\* the ids of the compound nodes a schema's groups may give
CompoundIds(schema) ==
    {<<"group:", schema.tableGroups[g].name>> : g \in DOMAIN schema.tableGroups}

\* the ids of the table nodes of a graph, at the root or inside a compound node
GraphTableIds(schema, graph) ==
    {graph.children[i].id : i \in {j \in DOMAIN graph.children :
                                      graph.children[j].id \notin CompoundIds(schema)}}
    \cup UNION {{graph.children[i].children[k].id : k \in DOMAIN graph.children[i].children} :
                   i \in {j \in DOMAIN graph.children :
                             graph.children[j].id \in CompoundIds(schema)}}

\* the table whose node carries a port with this id
PortTable(port) == <<port[1], port[2]>>

\* C13: the submitted graph has as many edges as the schema has references
\* with both tables in the schema; the k-th edge joins the tables of the
\* k-th such reference, so a reference with a missing table gives no edge;
\* and every table of the schema is a node of the graph
C13_OneEdgePerResolvableRef ==
    lastEvent.kind = "graph" =>
        LET schema == lastParsedSchema
            graph == elkCalls[1].graph
            resolvable == {i \in DOMAIN schema.refs : Resolvable(schema, schema.refs[i])}
        IN  /\ Len(graph.edges) = Cardinality(resolvable)
            /\ \A i \in resolvable :
                  LET k == Cardinality({j \in resolvable : j <= i})
                      ref == schema.refs[i]
                  IN  /\ Len(graph.edges[k].sources) = 1
                      /\ Len(graph.edges[k].targets) = 1
                      /\ PortTable(graph.edges[k].sources[1]) = <<ref.fromSchema, ref.fromTable>>
                      /\ PortTable(graph.edges[k].targets[1]) = <<ref.toSchema, ref.toTable>>
            /\ SchemaTableIds(schema) \subseteq GraphTableIds(schema, graph)

\* a schema of tables a and b whose first reference names the missing table
\* c and whose second joins a to b: the graph has the one edge and both tables
C13_Witness ==
    /\ lastEvent.kind = "graph"
    /\ lastParsedSchema.tables = <<TableA, TableB>>
    /\ lastParsedSchema.refs = <<RefAC, RefAB>>
    /\ Len(elkCalls[1].graph.edges) = 1
    /\ PortTable(elkCalls[1].graph.edges[1].targets[1]) = B
    /\ GraphTableIds(lastParsedSchema, elkCalls[1].graph) = {A, B}

\* C17: computeLayout builds a graph for every schema: the builder yields
\* a root graph for each, the graph is the root with one compound
\* node per group that has a table of the schema among its members, each
\* with at least one child, and no more edges than references; a schema
\* without tables gives a root without children and without edges
C17_BuilderTotal ==
    /\ lastEvent.kind = "init" => buildGraph(lastParsedSchema, direction).id = "root"
    /\ lastEvent.kind = "graph" =>
          LET schema == lastParsedSchema
              graph == elkCalls[1].graph
              compound == {i \in DOMAIN graph.children :
                              graph.children[i].id \in CompoundIds(schema)}
              surviving == {g \in DOMAIN schema.tableGroups :
                               \E m \in DOMAIN schema.tableGroups[g].tables :
                                  <<schema.tableGroups[g].tables[m].schemaName,
                                    schema.tableGroups[g].tables[m].tableName>>
                                      \in SchemaTableIds(schema)}
          IN  /\ graph.id = "root"
              /\ Cardinality(compound) = Cardinality(surviving)
              /\ \A i \in compound : graph.children[i].children # <<>>
              /\ Len(graph.edges) <= Len(schema.refs)
              /\ schema.tables = <<>> => graph.children = <<>> /\ graph.edges = <<>>

\* a schema without tables that has a reference and two groups: the graph
\* is the root without children and without edges
C17_Witness ==
    /\ lastEvent.kind = "graph"
    /\ lastParsedSchema.tables = <<>>
    /\ Len(lastParsedSchema.refs) = 1
    /\ Len(lastParsedSchema.tableGroups) = 2
    /\ elkCalls[1].graph.children = <<>>
    /\ elkCalls[1].graph.edges = <<>>

\* a LayoutNode of the layout has this id and position
HasNodeAt(l, id, x, y) ==
    \E n \in DOMAIN l.nodes :
        l.nodes[n].id = id /\ l.nodes[n].x = x /\ l.nodes[n].y = y

\* the number of table nodes a result reports, at the root and in containers
RECURSIVE ReportedTables(_, _)
ReportedTables(schema, children) ==
    IF children = <<>> THEN 0
    ELSE (IF Head(children).id \in CompoundIds(schema)
          THEN Len(Head(children).children) ELSE 1)
         + ReportedTables(schema, Tail(children))

\* C14: a table the solver reports inside a group container is extracted at
\* the container's origin plus its reported position, x and y separately; a
\* table reported at the root is extracted at its reported position; the
\* LayoutGroup of a container has the container's reported box; and the
\* result has no other nodes or groups
C14_GroupedPositions ==
    lastEvent.kind = "return" =>
        LET schema == lastParsedSchema
            result == elkCalls[1].result
            compound == {i \in DOMAIN result.children :
                            result.children[i].id \in CompoundIds(schema)}
        IN  /\ \A i \in compound :
                  LET child == result.children[i]
                  IN  /\ \A k \in DOMAIN child.children :
                            HasNodeAt(layout, child.children[k].id,
                                      child.x + child.children[k].x,
                                      child.y + child.children[k].y)
                      /\ \E g \in DOMAIN layout.groups :
                            /\ layout.groups[g].id = child.id
                            /\ layout.groups[g].x = child.x
                            /\ layout.groups[g].y = child.y
                            /\ layout.groups[g].width = child.width
                            /\ layout.groups[g].height = child.height
            /\ \A i \in DOMAIN result.children \ compound :
                  HasNodeAt(layout, result.children[i].id,
                            result.children[i].x, result.children[i].y)
            /\ Len(layout.nodes) = ReportedTables(schema, result.children)
            /\ Len(layout.groups) = Cardinality(compound)

\* table a is the member of the one group and table b is ungrouped; the
\* solver has put the container at (8, 4), a at (4, 4) inside it and b at
\* (24, 4): a is extracted at (12, 8), b at (24, 4)
C14_Witness ==
    /\ lastEvent.kind = "return"
    /\ lastParsedSchema.tables = <<TableA, TableB>>
    /\ Len(lastParsedSchema.tableGroups) = 1
    /\ lastParsedSchema.tableGroups[1].tables = <<Member(A)>>
    /\ elkCalls[1].result.children[1].id = <<"group:", "g1">>
    /\ elkCalls[1].result.children[1].x = 8
    /\ elkCalls[1].result.children[1].y = 4
    /\ layout.nodes = <<NodeAt(A, 12, 8), NodeAt(B, 24, 4)>>
    /\ Len(layout.groups) = 1
    /\ layout.groups[1].width = 40

\* C15: in a layout result the two tables every LayoutEdge's reference
\* names are ids of LayoutNodes of the same result
C15_EdgesJoinNodes ==
    lastEvent.kind = "return" =>
        \A e \in DOMAIN layout.edges :
            /\ <<layout.edges[e].ref.fromSchema, layout.edges[e].ref.fromTable>>
                   \in LayoutNodeIds(layout)
            /\ <<layout.edges[e].ref.toSchema, layout.edges[e].ref.toTable>>
                   \in LayoutNodeIds(layout)

\* tables a (in a group) and b, a reference to the missing table c and one
\* from a to b: the result has the one edge, from a to b, and both nodes
C15_Witness ==
    /\ lastEvent.kind = "return"
    /\ lastParsedSchema.refs = <<RefAC, RefAB>>
    /\ Len(lastParsedSchema.tableGroups) = 1
    /\ lastParsedSchema.tableGroups[1].tables = <<Member(A)>>
    /\ Len(layout.edges) = 1
    /\ layout.edges[1].ref = RefAB
    /\ LayoutNodeIds(layout) = {A, B}

\* C16 as stated: every LayoutEdge has at least 2 points, in the layout and
\* as drawn with the displacements applied
C16_PolylinesHaveTwoPoints ==
    lastEvent.kind = "return" =>
        \A e \in DOMAIN layout.edges :
            /\ Len(layout.edges[e].points) >= 2
            /\ Len(rendered.edges[e]) >= 2

\* C16: a LayoutEdge the solver returned with at least one section has at
\* least 2 points, in the layout and as drawn with the displacements
\* applied; one returned without sections has no points in either
C16_RoutedPolylines ==
    lastEvent.kind = "return" =>
        \A e \in DOMAIN layout.edges :
            IF elkCalls[1].result.edges[e].sections # <<>>
            THEN /\ Len(layout.edges[e].points) >= 2
                 /\ Len(rendered.edges[e]) >= 2
            ELSE /\ layout.edges[e].points = <<>>
                 /\ rendered.edges[e] = <<>>

\* the edge from a to b came back with one section without bends, and a
\* is displaced: 2 points in the layout, 4 as drawn
C16_Witness ==
    /\ lastEvent.kind = "return"
    /\ Len(layout.edges) = 1
    /\ layout.edges[1].ref = RefAB
    /\ elkCalls[1].result.edges[1].sections = RouteStraight
    /\ ~IsZero(OffsetOf(nodeOffsets, A))
    /\ Len(layout.edges[1].points) = 2
    /\ Len(rendered.edges[1]) = 4

----------------------------------------------------------------------------
(* Claims on the two cases of adjustedPoints *)

\* a segment counts as horizontal when it is at least as wide as it is high
Horizontal(p, q) == Abs(q.x - p.x) >= Abs(q.y - p.y)

\* C19: a base polyline of 2 points, with a nonzero displacement of either
\* of its nodes, is drawn as 4 points, each joined to the next along an
\* axis: it starts at the base first point plus the source displacement and
\* ends at the base last point plus the target displacement, and its middle
\* segment crosses the axis of the base polyline halfway between the two
\* displaced ends
C19_StraightBecomesStepped ==
    lastEvent.kind = "render" =>
        \A i \in 1..Len(layout.edges) :
            LET e == layout.edges[i]
                ids == edgeNodeIds(e)
                f == OffsetOf(nodeOffsets, ids.fromId)
                t == OffsetOf(nodeOffsets, ids.toId)
                out == rendered.edges[i]
            IN  (Len(e.points) = 2 /\ (~IsZero(f) \/ ~IsZero(t))) =>
                  LET first == Pt(e.points[1].x + f.dx, e.points[1].y + f.dy)
                      last == Pt(e.points[2].x + t.dx, e.points[2].y + t.dy)
                  IN  /\ Len(out) = 4
                      /\ out[1] = first
                      /\ out[4] = last
                      /\ AxisAligned(out)
                      /\ IF Horizontal(e.points[1], e.points[2])
                         THEN /\ out[2].x = out[3].x
                              /\ 2 * out[2].x = first.x + last.x
                              /\ out[2].y = first.y /\ out[3].y = last.y
                         ELSE /\ out[2].y = out[3].y
                              /\ 2 * out[2].y = first.y + last.y
                              /\ out[2].x = first.x /\ out[3].x = last.x

\* the horizontal line from (0,0) to (4,0) with its source node displaced
\* by (2,2): drawn from (2,2) through the bend at x = 3 to (4,0)
C19_Witness ==
    /\ lastEvent.kind = "render"
    /\ layout.edges[1].ref = RefAB
    /\ layout.edges[1].points = <<Pt(0, 0), Pt(4, 0)>>
    /\ OffsetOf(nodeOffsets, A) = Off(2, 2)
    /\ IsZero(OffsetOf(nodeOffsets, B))
    /\ rendered.edges[1] = <<Pt(2, 2), Pt(3, 2), Pt(3, 0), Pt(4, 0)>>

\* what reaches point i of the source displacement: its x while no segment
\* before the point is horizontal, its y while none is vertical
SourcePart(pts, f, i) ==
    Off(IF \A j \in 1..(i - 1) : ~Horizontal(pts[j], pts[j + 1]) THEN f.dx ELSE 0,
        IF \A j \in 1..(i - 1) : Horizontal(pts[j], pts[j + 1]) THEN f.dy ELSE 0)

\* what reaches point i of the target displacement, from the other end
TargetPart(pts, t, i) ==
    Off(IF \A j \in i..(Len(pts) - 1) : ~Horizontal(pts[j], pts[j + 1]) THEN t.dx ELSE 0,
        IF \A j \in i..(Len(pts) - 1) : Horizontal(pts[j], pts[j + 1]) THEN t.dy ELSE 0)

\* horizontal and vertical segments follow each other in turn
Alternating(pts) ==
    \A j \in 1..(Len(pts) - 2) :
        Horizontal(pts[j], pts[j + 1]) # Horizontal(pts[j + 1], pts[j + 2])

\* C20: of a base polyline of 3 or more points with a displaced node, the
\* point i is drawn moved by what reaches it of the source displacement
\* through the segments before it and of the target displacement through
\* the segments after it, a horizontal segment passing on only y and a
\* vertical one only x; so when the segments alternate the source
\* displacement moves no point after the second and the target
\* displacement no point before the last but one
C20_Propagation ==
    lastEvent.kind = "render" =>
        \A e \in 1..Len(layout.edges) :
            LET pts == layout.edges[e].points
                ids == edgeNodeIds(layout.edges[e])
                f == OffsetOf(nodeOffsets, ids.fromId)
                t == OffsetOf(nodeOffsets, ids.toId)
                n == Len(pts)
                out == rendered.edges[e]
            IN  (n >= 3 /\ (~IsZero(f) \/ ~IsZero(t))) =>
                  /\ Len(out) = n
                  /\ \A i \in 1..n :
                        out[i] = Pt(pts[i].x + SourcePart(pts, f, i).dx
                                             + TargetPart(pts, t, i).dx,
                                    pts[i].y + SourcePart(pts, f, i).dy
                                             + TargetPart(pts, t, i).dy)
                  /\ (Alternating(pts) /\ IsZero(t)) =>
                        \A i \in 3..n : out[i] = pts[i]
                  /\ (Alternating(pts) /\ IsZero(f)) =>
                        \A i \in 1..(n - 2) : out[i] = pts[i]

\* the path right, down, left of 4 points with its source node displaced
\* by (2,2): the first point moves by (2,2), the second by (0,2), no other
C20_Witness ==
    /\ lastEvent.kind = "render"
    /\ layout.edges[1].ref = RefAB
    /\ layout.edges[1].points = <<Pt(0, 0), Pt(4, 0), Pt(4, 4), Pt(0, 4)>>
    /\ OffsetOf(nodeOffsets, A) = Off(2, 2)
    /\ IsZero(OffsetOf(nodeOffsets, B))
    /\ rendered.edges[1] = <<Pt(2, 2), Pt(4, 2), Pt(4, 4), Pt(0, 4)>>

----------------------------------------------------------------------------
(* Claims on the drag gesture *)

\* C21: the dragging marker is set by a left-button mousedown on a node and
\* by nothing else, and cleared by the next mouseup and by nothing else; a
\* mousedown with another button changes neither the marker nor the
\* displacement map; a mousemove changes the displacement map only while
\* the marker is set, so not before a mousedown and not after the mouseup
\* until a new mousedown
C21_GestureProtocol ==
    [][/\ (draggingNodeId = Null /\ ~(draggingNodeId' = Null)) =>
             /\ lastEvent'.kind = "mousedown" /\ lastEvent'.flag
             /\ draggingNodeId' \in LayoutNodeIds(layout)
       /\ (~(draggingNodeId = Null) /\ draggingNodeId' = Null) =>
             lastEvent'.kind = "mouseup"
       /\ (~(draggingNodeId = Null) /\ ~(draggingNodeId' = Null)) =>
             draggingNodeId' = draggingNodeId
       /\ (lastEvent'.kind = "mousedown" /\ lastEvent'.flag) =>
             ~(draggingNodeId' = Null)
       /\ (lastEvent'.kind = "mousedown" /\ ~lastEvent'.flag) =>
             /\ (draggingNodeId = Null) = (draggingNodeId' = Null)
             /\ nodeOffsets' = nodeOffsets
       /\ lastEvent'.kind = "mouseup" => draggingNodeId' = Null
       /\ (lastEvent'.kind = "mousemove" /\ draggingNodeId = Null) =>
             nodeOffsets' = nodeOffsets]_vars

\* node a was dragged and released, and the pointer has moved on to another
\* place: the map holds what the gesture left
C21_Witness ==
    /\ lastEvent.kind = "mousemove"
    /\ draggingNodeId = Null
    /\ A \in DOMAIN nodeOffsets /\ ~IsZero(nodeOffsets[A])
    /\ pointer = <<0, 0>>
    /\ nodeOffsets[A].dx # 0

\* C22: a move of a gesture changes the dragged node's displacement by the
\* travel of the pointer in that move, so after a layout was installed
\* during the gesture the displacement written holds nothing of what the
\* node had before the install; and every key of the displacement map is
\* the id of a node of the current layout
C22_InstallDiscards ==
    [][/\ DraggingMove =>
             LET l == listeners[1]
                 before == OffsetOf(nodeOffsets, l.id)
                 written == OffsetOf(nodeOffsets', l.id)
             IN  /\ (written.dx - before.dx) * l.scale = pointer'[1] - pointer[1]
                 /\ (written.dy - before.dy) * l.scale = pointer'[2] - pointer[2]
       /\ DOMAIN nodeOffsets' \subseteq LayoutNodeIds(layout')]_vars

----------------------------------------------------------------------------
(* Claims on overlapping solver calls *)

----------------------------------------------------------------------------
(* Claims on adjustedPoints as a whole *)

\* C24: adjustedPoints gives a list of points for every base polyline of
\* 0 to MaxPts points, equal points included, every displacement map and
\* both an edge between two nodes and an edge from a node to itself: the
\* list drawn has as many points as the base polyline, except 4 for a base
\* of 2 points with a displaced node, each point with numbers for x and y,
\* and a single point moves with the source node; an edge neither of whose
\* nodes is displaced keeps its base polyline, whatever other nodes are
\* displaced
C24_AdjustedTotal ==
    lastEvent.kind = "render" =>
        \A i \in 1..Len(layout.edges) :
            LET e == layout.edges[i]
                ids == edgeNodeIds(e)
                f == OffsetOf(nodeOffsets, ids.fromId)
                t == OffsetOf(nodeOffsets, ids.toId)
                n == Len(e.points)
                out == rendered.edges[i]
            IN  /\ Len(out) = IF n = 2 /\ ~(IsZero(f) /\ IsZero(t)) THEN 4 ELSE n
                /\ \A k \in 1..Len(out) : out[k].x \in Int /\ out[k].y \in Int
                /\ n = 1 => out[1] = Pt(e.points[1].x + f.dx, e.points[1].y + f.dy)
                /\ (IsZero(f) /\ IsZero(t)) => out = e.points

\* an edge from node a to itself whose base polyline is one point, with a
\* displaced: the point is drawn moved with the node
C24_Witness ==
    /\ lastEvent.kind = "render"
    /\ layout.edges[1].ref = RefAA
    /\ layout.edges[1].points = <<Pt(4, 4)>>
    /\ OffsetOf(nodeOffsets, A) = Off(2, -2)
    /\ rendered.edges[1] = <<Pt(6, 2)>>

----------------------------------------------------------------------------
(* Claims on ports *)

\* the table nodes of a graph, at the root and inside the compound nodes
GraphTableNodes(schema, graph) ==
    {graph.children[i] : i \in {j \in DOMAIN graph.children :
                                   graph.children[j].id \notin CompoundIds(schema)}}
    \cup UNION {{graph.children[i].children[k] : k \in DOMAIN graph.children[i].children} :
                   i \in {j \in DOMAIN graph.children :
                             graph.children[j].id \in CompoundIds(schema)}}

\* the name of the first column of a list, the empty name for an empty list
FirstOf(columns) == IF Len(columns) = 0 THEN "" ELSE columns[1]

\* C25: the edge of the k-th reference with both tables in the schema has
\* one source, the 'right' port of the first source column on the source
\* table, and one target, the 'left' port of the first target column on the
\* target table; the further columns of the reference do not appear
C25_FirstColumnPorts ==
    lastEvent.kind = "graph" =>
        LET schema == lastParsedSchema
            graph == elkCalls[1].graph
            resolvable == {i \in DOMAIN schema.refs : Resolvable(schema, schema.refs[i])}
        IN  \A i \in resolvable :
               LET k == Cardinality({j \in resolvable : j <= i})
                   ref == schema.refs[i]
               IN  /\ graph.edges[k].sources =
                         <<<<ref.fromSchema, ref.fromTable, FirstOf(ref.fromColumns), "right">>>>
                   /\ graph.edges[k].targets =
                         <<<<ref.toSchema, ref.toTable, FirstOf(ref.toColumns), "left">>>>

\* the reference from a.(b_id, k) to b.(id, zz) alone: its edge goes from
\* the right port of a.b_id to the left port of b.id
C25_Witness ==
    /\ lastEvent.kind = "graph"
    /\ lastParsedSchema.refs = <<RefComposite>>
    /\ elkCalls[1].graph.edges[1].sources = <<<<"public", "a", "b_id", "right">>>>
    /\ elkCalls[1].graph.edges[1].targets = <<<<"public", "b", "id", "left">>>>

C28_PortPlacement ==
    lastEvent.kind = "graph" =>
        \A node \in GraphTableNodes(lastParsedSchema, elkCalls[1].graph) :
            LET table == CHOOSE t \in {lastParsedSchema.tables[j] :
                                          j \in DOMAIN lastParsedSchema.tables} :
                             <<t.schema, t.name>> = node.id
                n == Len(table.columns)
                hh == headerHeight(table, node.width)
            IN  /\ Len(node.ports) = 2 * n
                /\ node.height = hh + n * 28
                /\ \A i \in 0..(n - 1) :
                      LET out == node.ports[2 * i + 1]
                          in == node.ports[2 * i + 2]
                      IN  /\ out.id = <<table.schema, table.name, table.columns[i + 1].name, "right">>
                          /\ in.id = <<table.schema, table.name, table.columns[i + 1].name, "left">>
                          /\ out.width = 0 /\ out.height = 0
                          /\ in.width = 0 /\ in.height = 0
                          /\ IF direction \in {"RIGHT", "LEFT"}
                             THEN /\ out.x = node.width /\ in.x = 0
                                  /\ out.y = hh + i * 28 + 14 /\ in.y = out.y
                                  /\ 0 <= out.y /\ out.y <= node.height
                             ELSE /\ out.y = node.height /\ in.y = 0
                                  /\ (out.x - 24) * (n + 1) = (node.width - 48) * (i + 1)
                                  /\ in.x = out.x
                                  /\ 0 <= out.x /\ out.x <= node.width

\* direction DOWN: the 'right' port of the first of the three columns of
\* table a is on the bottom edge, a quarter of the padded width in
C28_Witness ==
    /\ lastEvent.kind = "graph"
    /\ direction = "DOWN"
    /\ \E node \in GraphTableNodes(lastParsedSchema, elkCalls[1].graph) :
          /\ node.id = A
          /\ node.width = 200 /\ node.height = 120
          /\ node.ports[1] = [id |-> <<"public", "a", "id", "right">>,
                              width |-> 0, height |-> 0, x |-> 62, y |-> 120]

----------------------------------------------------------------------------
(* Claims on grouping and on the edges of a result *)

\* the places where the groups of a schema list a table
Listings(schema, key) ==
    {<<g, m>> \in (DOMAIN schema.tableGroups) \X (1..2) :
        /\ m \in DOMAIN schema.tableGroups[g].tables
        /\ <<schema.tableGroups[g].tables[m].schemaName,
             schema.tableGroups[g].tables[m].tableName>> = key}

\* the places of a graph where a node has this id: <<i, 0>> for child i of
\* the root, <<i, k>> for child k of child i
Places(graph, key) ==
    {<<i, 0>> : i \in {j \in DOMAIN graph.children : graph.children[j].id = key}}
    \cup UNION {{<<i, k>> : k \in {c \in DOMAIN graph.children[i].children :
                                      graph.children[i].children[c].id = key}} :
                   i \in DOMAIN graph.children}

\* C27: when no table is listed twice by the groups, every table of the
\* schema is a node of the graph at exactly one place: inside the container
\* of the group that lists it, or at the root when no group lists it; a
\* group none of whose members is a table of the schema has no container,
\* and no container is without children
C27_EachTableOnce ==
    lastEvent.kind = "graph" =>
        LET schema == lastParsedSchema
            graph == elkCalls[1].graph
        IN  (\A key \in SchemaTableIds(schema) : Cardinality(Listings(schema, key)) <= 1) =>
              /\ \A key \in SchemaTableIds(schema) :
                    /\ Cardinality(Places(graph, key)) = 1
                    /\ \A place \in Places(graph, key) :
                          IF Listings(schema, key) = {}
                          THEN place[2] = 0
                          ELSE /\ place[2] > 0
                               /\ \E l \in Listings(schema, key) :
                                     graph.children[place[1]].id =
                                         <<"group:", schema.tableGroups[l[1]].name>>
              /\ \A g \in DOMAIN schema.tableGroups :
                    (\A m \in DOMAIN schema.tableGroups[g].tables :
                        <<schema.tableGroups[g].tables[m].schemaName,
                          schema.tableGroups[g].tables[m].tableName>>
                            \notin SchemaTableIds(schema))
                    => Places(graph, <<"group:", schema.tableGroups[g].name>>) = {}
              /\ \A i \in DOMAIN graph.children :
                    graph.children[i].id \in CompoundIds(schema)
                        => graph.children[i].children # <<>>

\* the first group lists the missing table c alone, the second lists a: the
\* graph has the container of the second group with a inside, and b at the
\* root
C27_Witness ==
    /\ lastEvent.kind = "graph"
    /\ lastParsedSchema.tables = <<TableA, TableB>>
    /\ Len(lastParsedSchema.tableGroups) = 2
    /\ lastParsedSchema.tableGroups[1].tables = <<Member(C)>>
    /\ lastParsedSchema.tableGroups[2].tables = <<Member(A)>>
    /\ Len(elkCalls[1].graph.children) = 2
    /\ Places(elkCalls[1].graph, A) = {<<1, 1>>}
    /\ Places(elkCalls[1].graph, B) = {<<2, 0>>}
    /\ elkCalls[1].graph.children[1].id = <<"group:", "g2">>

\* start point, bend points and end point of a section
OfSection(section) == <<section.startPoint>> \o section.bendPoints \o <<section.endPoint>>

\* C29: the i-th LayoutEdge of a result carries the i-th reference of the
\* schema with both tables in the schema, which is the reference the i-th
\* submitted edge was built from, also when references before it were
\* dropped; its polyline is start point, bend points and end point of the
\* first section followed by those of the next
C29_EdgesKeepTheirReference ==
    lastEvent.kind = "return" =>
        LET schema == lastParsedSchema
            graph == elkCalls[1].graph
            result == elkCalls[1].result
            resolvable == {i \in DOMAIN schema.refs : Resolvable(schema, schema.refs[i])}
        IN  /\ Len(layout.edges) = Cardinality(resolvable)
            /\ \A i \in resolvable :
                  LET k == Cardinality({j \in resolvable : j <= i})
                      sections == result.edges[k].sections
                  IN  /\ layout.edges[k].ref = schema.refs[i]
                      /\ layout.edges[k].id = graph.edges[k].id
                      /\ graph.edges[k].sources[1] =
                             <<schema.refs[i].fromSchema, schema.refs[i].fromTable,
                               FirstOf(schema.refs[i].fromColumns), "right">>
                      /\ graph.edges[k].targets[1] =
                             <<schema.refs[i].toSchema, schema.refs[i].toTable,
                               FirstOf(schema.refs[i].toColumns), "left">>
                      /\ layout.edges[k].points =
                             IF Len(sections) = 0 THEN <<>>
                             ELSE IF Len(sections) = 1 THEN OfSection(sections[1])
                             ELSE OfSection(sections[1]) \o OfSection(sections[2])

\* the first reference names the missing table c and is dropped: the one
\* LayoutEdge carries the second reference, with the 5 points of its two
\* sections
C29_Witness ==
    /\ lastEvent.kind = "return"
    /\ lastParsedSchema.refs = <<RefAC, RefAB>>
    /\ Len(layout.edges) = 1
    /\ layout.edges[1].ref = RefAB
    /\ elkCalls[1].result.edges[1].sections = RouteTwoSections
    /\ layout.edges[1].points = <<Pt(4, 0), Pt(8, 0), Pt(8, 0), Pt(8, 4), Pt(12, 4)>>

----------------------------------------------------------------------------
(* A solver that attaches every edge to its ports. ELK reports the         *)
(* position of a node relative to the node it is a child of, and the       *)
(* points of an edge relative to the edge's container: the lowest node     *)
(* that holds both end nodes, whatever node the edge was listed under.     *)

GROUP_LABEL_HEIGHT == 32
GROUP_PADDING == 20
\* 'elk.padding' of the root graph
ROOT_PADDING == 30
\* 'elk.layered.spacing.nodeNodeBetweenLayers'
LAYER_SPACING == 120

IsCompound(n) == n.children # <<>>

RECURSIVE RowWidth(_)
\* the width of table nodes laid in a row
RowWidth(nodes) ==
    IF nodes = <<>> THEN 0
    ELSE Head(nodes).width
         + (IF Len(nodes) > 1 THEN LAYER_SPACING ELSE 0) + RowWidth(Tail(nodes))

NodeWidth(n) ==
    IF IsCompound(n) THEN 2 * GROUP_PADDING + RowWidth(n.children) ELSE n.width

NodeHeight(n) ==
    IF IsCompound(n)
    THEN GROUP_LABEL_HEIGHT + 2 * GROUP_PADDING
         + Max(n.children[1].height, n.children[Len(n.children)].height)
    ELSE n.height

RECURSIVE RowX(_, _, _)
\* x of the k-th node of a row that starts at x = start
RowX(nodes, k, start) ==
    IF k = 1 THEN start
    ELSE RowX(nodes, k - 1, start) + NodeWidth(nodes[k - 1]) + LAYER_SPACING

\* the children of the root in a row inside the root's padding, the
\* children of a compound node in a row inside the compound node's padding,
\* every position relative to the parent
PlaceNodes(graph) ==
    [i \in 1..Len(graph.children) |->
        [id |-> graph.children[i].id,
         x |-> RowX(graph.children, i, ROOT_PADDING),
         y |-> ROOT_PADDING,
         width |-> NodeWidth(graph.children[i]),
         height |-> NodeHeight(graph.children[i]),
         children |-> [k \in 1..Len(graph.children[i].children) |->
                          [id |-> graph.children[i].children[k].id,
                           x |-> RowX(graph.children[i].children, k, GROUP_PADDING),
                           y |-> GROUP_LABEL_HEIGHT + GROUP_PADDING,
                           width |-> graph.children[i].children[k].width,
                           height |-> graph.children[i].children[k].height]]]]

\* the index of the compound node a table node is a child of, 0 for a
\* child of the root
ParentOf(graph, tableId) ==
    IF \E i \in DOMAIN graph.children :
           \E k \in DOMAIN graph.children[i].children :
               graph.children[i].children[k].id = tableId
    THEN CHOOSE i \in DOMAIN graph.children :
             \E k \in DOMAIN graph.children[i].children :
                 graph.children[i].children[k].id = tableId
    ELSE 0

\* the container of an edge: the compound node both end nodes are children
\* of, otherwise the root (0)
EdgeContainer(graph, edge) ==
    IF ParentOf(graph, PortTable(edge.sources[1]))
           = ParentOf(graph, PortTable(edge.targets[1]))
    THEN ParentOf(graph, PortTable(edge.sources[1]))
    ELSE 0

\* the submitted node of a table
SubmittedNode(graph, tableId) ==
    LET p == ParentOf(graph, tableId)
    IN  IF p = 0
        THEN graph.children[CHOOSE i \in DOMAIN graph.children :
                                graph.children[i].id = tableId]
        ELSE graph.children[p].children[
                 CHOOSE k \in DOMAIN graph.children[p].children :
                     graph.children[p].children[k].id = tableId]

\* the position of a port inside its node, as submitted (FIXED_POS)
PortOffset(graph, port) ==
    LET n == SubmittedNode(graph, PortTable(port))
        p == CHOOSE q \in DOMAIN n.ports : n.ports[q].id = port
    IN  Pt(n.ports[p].x, n.ports[p].y)

\* the position of a port relative to container c
PortIn(graph, placed, port, c) ==
    LET tableId == PortTable(port)
        p == ParentOf(graph, tableId)
        off == PortOffset(graph, port)
        inParent ==
            IF p = 0
            THEN LET n == placed[CHOOSE i \in DOMAIN placed : placed[i].id = tableId]
                 IN  Pt(n.x + off.x, n.y + off.y)
            ELSE LET n == placed[p].children[
                              CHOOSE k \in DOMAIN placed[p].children :
                                  placed[p].children[k].id = tableId]
                 IN  Pt(n.x + off.x, n.y + off.y)
    IN  IF p = c THEN inParent
        ELSE Pt(placed[p].x + inParent.x, placed[p].y + inParent.y)

\* one section from the source port to the target port, with a corner when
\* the two are not on one line
RouteEdge(graph, placed, edge) ==
    LET c == EdgeContainer(graph, edge)
        s == PortIn(graph, placed, edge.sources[1], c)
        e == PortIn(graph, placed, edge.targets[1], c)
    IN  <<Section(s, IF s.x = e.x \/ s.y = e.y THEN <<>> ELSE <<Pt(e.x, s.y)>>, e)>>

\* what elk.layout resolves with: nodes placed, edges between their ports
RoutedResult(graph) ==
    LET placed == PlaceNodes(graph)
    IN  [children |-> placed,
         edges |-> [i \in 1..Len(graph.edges) |->
                       [id |-> graph.edges[i].id,
                        sections |-> RouteEdge(graph, placed, graph.edges[i])]],
         width |-> 2 * ROOT_PADDING + RowX(graph.children, Len(graph.children) + 1, 0),
         height |-> 2 * ROOT_PADDING + GROUP_LABEL_HEIGHT + 2 * GROUP_PADDING + 120]

RefBA == Ref("b", <<"id">>, "a", <<"k">>)

RoutedRefs == {RefAB, RefBA, RefBB, RefAA}

RoutedGroups ==
    {<<>>,
     <<[name |-> "g1", tables |-> <<Member(A)>>]>>,
     <<[name |-> "g1", tables |-> <<Member(A), Member(B)>>]>>,
     <<[name |-> "g1", tables |-> <<Member(B)>>],
       [name |-> "g2", tables |-> <<Member(A)>>]>>}

RoutedSchemas ==
    {[tables |-> <<TableA, TableB>>, refs |-> refs, tableGroups |-> groups] :
        refs \in UNION {[1..n -> RoutedRefs] : n \in 0..MaxRefs},
        groups \in RoutedGroups}

InitRouted ==
    /\ source = "ab"
    /\ direction \in LayoutDirections
    /\ layout = Null
    /\ parseErrors = FALSE
    /\ lastParsedSchema \in RoutedSchemas
    /\ elkCalls = <<>>
    /\ consoleErrors = 0
    /\ mounted = TRUE
    /\ debounceTimer = Null
    /\ nodeOffsets = <<>>
    /\ draggingNodeId = Null
    /\ prevLayout = Null
    /\ listeners = <<>>
    /\ zoomScale = 1
    /\ rendered = NotRendered
    /\ pointer = <<0, 0>>
    /\ lastEvent = [kind |-> "init", flag |-> FALSE, after |-> "-"]

\* computeLayout after its await, with edges the solver attached to the
\* ports, and the diagram drawn from its result
computeLayoutReturnRouted ==
    /\ lastEvent.kind = "graph"
    /\ layout' = ExtractLayout(elkCalls[1], RoutedResult(elkCalls[1].graph), 0)
    /\ elkCalls' = <<Returned(elkCalls[1], RoutedResult(elkCalls[1].graph))>>
    /\ rendered' = Render(layout', nodeOffsets)
    /\ lastEvent' = [kind |-> "return", flag |-> FALSE, after |-> "-"]
    /\ UNCHANGED <<source, direction, parseErrors, lastParsedSchema,
                   consoleErrors, mounted, debounceTimer, nodeOffsets,
                   draggingNodeId, prevLayout, listeners, zoomScale, pointer>>

NextRouted ==
    \/ computeLayoutCall
    \/ computeLayoutReturnRouted

SpecRouted == InitRouted /\ [][NextRouted]_vars

\* the LayoutNode of a table
LayoutNodeOf(l, tableId) == l.nodes[CHOOSE i \in DOMAIN l.nodes : l.nodes[i].id = tableId]

\* C30: nodes and polylines are in one coordinate space: the polyline of
\* every LayoutEdge, also of an edge between two tables of one group,
\* starts at the position of the source LayoutNode plus the offset of its
\* 'right' port and ends at the position of the target LayoutNode plus the
\* offset of its 'left' port
C30_OneCoordinateSpace ==
    lastEvent.kind = "return" =>
        \A k \in DOMAIN layout.edges :
            LET edge == layout.edges[k]
                ref == edge.ref
                graph == elkCalls[1].graph
                src == LayoutNodeOf(layout, <<ref.fromSchema, ref.fromTable>>)
                tgt == LayoutNodeOf(layout, <<ref.toSchema, ref.toTable>>)
                out == PortOffset(graph, <<ref.fromSchema, ref.fromTable,
                                           FirstOf(ref.fromColumns), "right">>)
                in == PortOffset(graph, <<ref.toSchema, ref.toTable,
                                          FirstOf(ref.toColumns), "left">>)
            IN  /\ Len(edge.points) >= 2
                /\ edge.points[1] = Pt(src.x + out.x, src.y + out.y)
                /\ edge.points[Len(edge.points)] = Pt(tgt.x + in.x, tgt.y + in.y)

====
